---- MODULE Spec2Model ----
(***************************************************************************)
(* A model of the session engine of go-ircevo (package irc):               *)
(*   - SpecNick: the nickname state machine: the built-in                  *)
(*     431/432/433/436/437/484, NICK and 001 handlers of setupCallbacks,   *)
(*     Nick(), and the probe-frequency branch of pingLoop;                 *)
(*   - Spec: the connection lifecycle: Connect, readLoop, writeLoop,       *)
(*     pingLoop, Loop, Reconnect, Disconnect and Quit, interleaved at the  *)
(*     points where the Go code can be preempted;                          *)
(*   - SpecLoop: the same lifecycle with Loop alone reconnecting;          *)
(*   - SpecCaps: the registration paths of negotiateCaps;                  *)
(*   - SpecLive: Spec with every goroutine scheduled fairly;               *)
(*   - SpecDispatch: AddCallback and one call of RunCallbacks with the     *)
(*     goroutines it starts;                                               *)
(*   - SpecParse: parseToEvent applied to one line;                        *)
(*   - SpecAnalyze: AnalyzeErrorMessage applied to one text;               *)
(*   - SpecRequests: SpecNick with Nick(), the confirmations and the 433   *)
(*     and 484 rejections alone;                                           *)
(*   - SpecProbe: SpecRequests with the outbound queue served fairly;      *)
(*   - SpecWorkers: one connection's goroutines and lastMessageMutex;       *)
(*   - SpecRegistry: dispatches in sequence to handlers that change the    *)
(*     registry;                                                           *)
(*   - SpecReader: readLoop parsing and dispatching line after line;        *)
(*   - SpecTags: unescapeTagValue applied to an encoded tag value;          *)
(*   - SpecShutdown: Connect with SASL requested, then Disconnect;         *)
(*   - SpecSasl: Connect and Reconnect with SASL requested, without Loop;  *)
(*   - SpecCalls: the lifecycle without Loop, with Nick(),                 *)
(*     GetNickStatus() and ValidateConnectionState() called between the    *)
(*     application's Connect, Reconnect and Disconnect.                    *)
(* The specifications share one set of variables; each leaves the          *)
(* variables it does not model untouched.                                  *)
(***************************************************************************)
EXTENDS Integers, Sequences, FiniteSets, TLC

(***************************************************************************)
(* Bounds of the model (not program constants).                            *)
(***************************************************************************)
\* alternatives the rejection handlers may generate in one run
MaxAlternatives == 2
\* messages the outbound queue holds in SpecNick before a sender has to wait
MaxQueue == 1
\* connections dialled successfully in one run of Spec
MaxConnects == 2
\* connections dialled successfully in one run of SpecLoop
MaxLoopConnects == 5
\* dials that fail in one run of Spec
MaxDialFails == 1
\* Disconnect, Reconnect and Quit calls the application makes in one run
MaxAppCalls == 1
\* ticks of pingLoop's tickers in one run
MaxTicks == 1
\* CAP replies the server sends in one run
MaxCapLines == 2
\* connections dialled successfully in one run of SpecCaps
MaxCapConnects == 2
\* handlers registered in one run of SpecDispatch
MaxHandlers == 2
\* AddCallback calls in one run
MaxRegistrations == 2
\* characters that follow the sub-command of a CTCP payload
MaxTail == 1
\* characters of a line given to parseToEvent
MaxLineLen == 4
\* characters of a line readLoop reads
MaxReadLen == 2
\* characters of a tag value
MaxTagLen == 2
\* characters before and after the core of a text given to
\* AnalyzeErrorMessage
MaxAround == 1
\* Nick, GetNickStatus and ValidateConnectionState calls in one run of
\* SpecCalls
MaxStatusCalls == 3

(***************************************************************************)
(* Program constants.                                                      *)
(***************************************************************************)
\* modifyNick: nicknames longer than this get the filler in front
NickSuffixLimit == 8
\* IRC(): MaxRecoverableReconnects: 3
MaxRecoverableReconnects == 3
\* Connect: make(chan string, 10) and make(chan error, 10)
PwriteCap == 10
ErrorCap == 10
\* negotiateCaps: make(chan bool, len(irc.RequestCaps)), RequestCaps = {"sasl"}
CapChanCap == 1
\* IRC(): the defaults of the two error-handling switches
HandleErrorAsDisconnect == TRUE
SmartErrorHandling == TRUE

VARIABLES
    \* ---- identity (Connection fields, all guarded by the embedded Mutex)
    nick,                  \* irc.nick: the nickname the caller wants
    nickcurrent,           \* irc.nickcurrent: what GetNick() returns
    nickPending,           \* irc.nickPending
    nickChangeInProgress,  \* irc.nickChangeInProgress
    nickChangeFresh,       \* time.Since(irc.nickChangeTimeout) < 30s
    nickError,             \* irc.nickError
    fullyConnected,        \* irc.fullyConnected
    registrationSteps,     \* irc.registrationSteps
    \* ---- outbound queue of the live connection, as SpecNick sees it
    outq,                  \* irc.pwrite: messages enqueued and not yet written
    \* ---- pingLoop's position in its probe-frequency branch
    pingPc,                \* "wait" | "send": about to send its NICK retry
    pingNick,              \* desiredNick, the local it captured under the lock
    \* ---- lifecycle (Connection fields and the goroutines' positions)
    useSASL,               \* irc.UseSASL, set before Connect
    mu,                    \* holder of the embedded Mutex across steps
    quit,                  \* irc.quit
    sentRegistration,      \* irc.sentRegistration
    endId,                 \* irc.end: 0 is nil, else the channel's identity
    endClosed,             \* the end channels that were closed
    ends,                  \* end channels made so far
    sock,                  \* irc.socket: 0 is nil, else the connection's number
    sockOpen,              \* sockets dialled and not closed by this side
    pw,                    \* irc.pwrite: 0 is nil, else the queue's number
    pwq,                   \* messages buffered in each outbound queue
    pwClosed,              \* the outbound queues that were closed
    errCur,                \* irc.Error: 0 is nil, else the channel's number
    errq,                  \* errors buffered in each Error channel
    conns,                 \* connections dialled so far
    workers,               \* the running readLoop/writeLoop/pingLoop goroutines
    timers,                \* fallback-registration goroutines still asleep
    capHandler,            \* negotiateCaps' CAP callback is registered
    capChan,               \* tokens buffered in cap_chan
    pc,                    \* position of the application and of Loop
    loopErr,               \* Loop: errStr, the error it is handling
    loopChan,              \* Loop: errChan, the channel it receives from
    recoverableReconnects, \* irc.recoverableReconnects
    panicked,              \* a goroutine panicked: the process is gone
    \* ---- bookkeeping of the model
    alternatives,          \* alternatives generated so far (bounds the run)
    regCount,              \* NICK/USER pairs enqueued on the current queue
    recovStreak,           \* consecutive Recoverable failures Loop received
    appCalls,              \* calls the application made (bounds the run)
    dialFails,             \* dials that failed (bounds the run)
    ticks,                 \* ticks taken by pingLoop (bounds the run)
    capLines,              \* CAP replies received (bounds the run)
    \* ---- callbacks (Connection fields and one RunCallbacks call)
    events,                \* irc.events: the registered handlers
    idCounter,             \* irc.idCounter
    callbackTimeout,       \* irc.CallbackTimeout != 0
    evIn,                  \* the event as it was passed to RunCallbacks
    evCode,                \* event.Code of the event being dispatched
    evArgs,                \* event.Arguments
    rcPc,                  \* RunCallbacks: "idle" | "wait" | "returned"
    snap,                  \* RunCallbacks: the callbacks map as it was built
    callbacks,             \* RunCallbacks: ids still in the callbacks map
    jobs,                  \* the goroutine started for each id of the map
    invoked,               \* handlers entered so far, in the order of entry
    ctxDone,               \* event.Ctx.Done() is closed
    \* ---- one call of parseToEvent
    line,                  \* msg, the line read from the socket
    parsed,                \* what the call came to
    \* ---- one call of AnalyzeErrorMessage
    errorText,             \* errorMsg, the text of the ERROR line
    errorType,             \* what the call returned, or "pending"
    \* ---- registration status
    welcomed,              \* connections whose 001 reply was handled
    enableTimeoutFallback, \* irc.EnableTimeoutFallback
    registrationStartTime, \* "zero" | "recent" | "old": registrationTimeout
                           \* or more ago
    statusCalls,           \* Nick, GetNickStatus and ValidateConnectionState
                           \* calls made (bounds the run)
    registered,            \* connections on whose queue NICK/USER was put
    \* ---- capabilities and what Connect came to
    requestCaps,           \* irc.RequestCaps
    configuredCaps,        \* what the application put there before Connect
    capReqs,               \* capabilities of the CAP REQs the last listing
                           \* brought
    connectErr             \* what Connect or Reconnect last returned:
                           \* "none" | "nil" | "error"

nickVars == <<nick, nickcurrent, nickPending, nickChangeInProgress,
              nickChangeFresh, nickError, fullyConnected, registrationSteps>>

pingVars == <<pingPc, pingNick>>

chanVars == <<endId, endClosed, ends, sock, sockOpen, pw, pwClosed, errCur,
              conns>>

loopVars == <<loopErr, loopChan, recoverableReconnects>>

histVars == <<regCount, recovStreak, appCalls, dialFails, ticks,
              capLines>>

lifeVars == <<useSASL, mu, quit, sentRegistration, chanVars, pwq, errq, workers,
              timers,
              capHandler, capChan, pc, loopVars, panicked, histVars>>

\* what only the nickname view moves
viewVars == <<outq, pingVars, alternatives>>

\* one RunCallbacks call and the handlers it works on
dispatchVars == <<events, idCounter, callbackTimeout, evIn, evCode, evArgs,
                  rcPc, snap, callbacks, jobs, invoked, ctxDone>>

\* one call of parseToEvent and one of AnalyzeErrorMessage
parseVars == <<line, parsed, errorText, errorType>>

\* the session: identity and lifecycle
sessionVars == <<nickVars, outq, pingVars, alternatives, lifeVars>>

\* the registration clock and what IsFullyConnected rests on
capVars == <<requestCaps, configuredCaps, capReqs>>

statusVars == <<welcomed, enableTimeoutFallback, registrationStartTime,
                statusCalls, registered, capVars, connectErr>>

vars == <<sessionVars, dispatchVars, parseVars, statusVars>>

(***************************************************************************)
(* Inputs.                                                                 *)
(***************************************************************************)
\* nicknames a session is constructed with: IRC(nick, user)
InitNicks == {"bob", "longnick9"}
\* nicknames the application asks for: Nick(n)
ReqNicks == {"alice", "bob"}
\* a nickname that is none of ours
Stranger == "zed"
\* the value an absent argument or an unset field has
NoNick == ""

\* Arguments[1] of a rejection reply: what the server says it rejected, or
\* NoArg when the reply carries fewer than two arguments
NoArg == "<none>"
RejectedArgs == {nick, nickcurrent, nickPending, Stranger, NoArg} \ {NoNick}
\* the source nick and the new nick of a NICK notification
NickSources == {nickcurrent, Stranger}
NickTargets == ReqNicks \cup {nick, nickPending, NoNick}
\* Arguments[0] of a 001 reply
WelcomeArgs == {nick, nickcurrent}
\* what the application puts in conn.RequestCaps before Connect
CapConfigs == {{}, {"multi-prefix"}, {"multi-prefix", "sasl"}}
\* Arguments[2] of a "CAP * LS" reply: the capabilities the server lists
Listings == SUBSET {"multi-prefix", "sasl"}

(***************************************************************************)
(* Helpers.                                                                *)
(***************************************************************************)
NickCmd(n) == "NICK " \o n

\* modifyNick: the alternative derived from a nickname
ModifiedNick(n) ==
    IF Len(n) > NickSuffixLimit THEN "_" \o n ELSE n \o "_"

\* GetNick()
GetNick == nickcurrent

\* GetNickStatus: the test that sets irc.fullyConnected before the status
\* is built
TimeoutFallback ==
    /\ enableTimeoutFallback
    /\ ~fullyConnected
    /\ nickcurrent # ""
    /\ registrationSteps > 0
    /\ registrationStartTime = "old"

\* GetNickStatus(): the NickStatus it returns
GetNickStatus ==
    [Current |-> nickcurrent, Desired |-> nick,
     Confirmed |-> (fullyConnected \/ TimeoutFallback),
     PendingChange |-> (nick # nickcurrent), Error |-> nickError]

\* SendRaw on the live queue: a sender waits while the queue is full
Room(k) == Len(outq) + k <= MaxQueue

(***************************************************************************)
(* The rejection handlers (433, 436, 437 share one body).                  *)
(***************************************************************************)
RejectInUse(errText, attemptedNick) ==
    /\ UNCHANGED <<lifeVars, dispatchVars, parseVars, statusVars>>
    /\ nickError' = errText
    /\ IF attemptedNick # NoArg /\ attemptedNick = nick
       THEN LET cur == IF nickcurrent = NoNick THEN nick ELSE nickcurrent
                alt == ModifiedNick(cur)
            IN /\ alternatives < MaxAlternatives
               /\ Room(1)
               /\ nickcurrent' = alt
               /\ outq' = Append(outq, NickCmd(alt))
               /\ alternatives' = alternatives + 1
       ELSE UNCHANGED <<nickcurrent, outq, alternatives>>
    /\ UNCHANGED <<nick, nickPending, nickChangeInProgress, nickChangeFresh,
                   fullyConnected, registrationSteps, pingVars>>

Handle433(attemptedNick) ==
    RejectInUse("Nickname already in use", attemptedNick)

Handle437(attemptedNick) ==
    RejectInUse("Nickname temporarily unavailable", attemptedNick)

Handle436(attemptedNick) ==
    RejectInUse("Nickname collision", attemptedNick)

Handle431 ==
    /\ UNCHANGED <<lifeVars, dispatchVars, parseVars, statusVars>>
    /\ nickError' = "No nickname given"
    /\ nickcurrent' = IF nickcurrent = NoNick THEN nick ELSE nickcurrent
    /\ IF nick # NoNick
       THEN /\ Room(1)
            /\ outq' = Append(outq, NickCmd(nick))
       ELSE UNCHANGED outq
    /\ UNCHANGED <<nick, nickPending, nickChangeInProgress, nickChangeFresh,
                   fullyConnected, registrationSteps, alternatives, pingVars>>

Handle432(attemptedNick) ==
    /\ UNCHANGED <<lifeVars, dispatchVars, parseVars, statusVars>>
    /\ nickError' = "Erroneous nickname"
    /\ IF attemptedNick # NoArg
          /\ (attemptedNick = nick \/ attemptedNick = nickcurrent)
       THEN LET cur == IF nickcurrent = NoNick THEN nick ELSE nickcurrent
                alt == "Err" \o cur
            IN /\ alternatives < MaxAlternatives
               /\ Room(1)
               /\ nickcurrent' = alt
               /\ outq' = Append(outq, NickCmd(alt))
               /\ alternatives' = alternatives + 1
       ELSE UNCHANGED <<nickcurrent, outq, alternatives>>
    /\ UNCHANGED <<nick, nickPending, nickChangeInProgress, nickChangeFresh,
                   fullyConnected, registrationSteps, pingVars>>

\* 484 handled the way 433 is: an alternative is generated and sent
Handle484Retries ==
    /\ UNCHANGED <<lifeVars, dispatchVars, parseVars, statusVars>>
    /\ nickError' = "Restricted nickname"
    /\ Room(1)
    /\ nickcurrent' = ModifiedNick(nickcurrent)
    /\ outq' = Append(outq, NickCmd(ModifiedNick(nickcurrent)))
    /\ UNCHANGED <<nick, nickPending, nickChangeInProgress, nickChangeFresh,
                   fullyConnected, registrationSteps, alternatives, pingVars>>

\* 484: the error is recorded, nothing else
Handle484 ==
    /\ UNCHANGED <<lifeVars, dispatchVars, parseVars, statusVars>>
    /\ nickError' = "Restricted nickname"
    /\ UNCHANGED <<nick, nickcurrent, nickPending, nickChangeInProgress,
                   nickChangeFresh, fullyConnected, registrationSteps, outq,
                   alternatives, pingVars>>

(***************************************************************************)
(* The confirmation handlers.                                              *)
(***************************************************************************)
\* NICK: e.Nick is the source nick, e.Message() the announced nickname
HandleNICK(src, newNick) ==
    /\ UNCHANGED <<lifeVars, dispatchVars, parseVars, statusVars>>
    /\ IF src = nickcurrent /\ newNick # NoNick
       THEN /\ nickcurrent' = newNick
            /\ nickChangeInProgress' = FALSE
            /\ nick' = newNick
            /\ nickError' = ""
       ELSE UNCHANGED <<nickcurrent, nickChangeInProgress, nick, nickError>>
    /\ UNCHANGED <<nickPending, nickChangeFresh, fullyConnected,
                   registrationSteps, outq, alternatives, pingVars>>

\* 001: e.Arguments[0] is the nickname the server registered
Handle001(arg) ==
    /\ UNCHANGED <<lifeVars, dispatchVars, parseVars, enableTimeoutFallback,
                   statusCalls, registered, capVars,
                   connectErr>>
    /\ welcomed' = welcomed \cup {sock}
    /\ registrationStartTime' = "recent"
    /\ nickcurrent' = arg
    /\ nick' = arg
    /\ fullyConnected' = TRUE
    /\ nickError' = ""
    /\ registrationSteps' = 1
    /\ UNCHANGED <<nickPending, nickChangeInProgress, nickChangeFresh, outq,
                   alternatives, pingVars>>

(***************************************************************************)
(* Caller requests and the periodic retry.                                 *)
(***************************************************************************)
\* Nick taking the requested nickname for confirmed at once
NickSetsCurrent(n) ==
    /\ UNCHANGED <<lifeVars, dispatchVars, parseVars, statusVars>>
    /\ UNCHANGED <<nickError, fullyConnected, registrationSteps,
                   alternatives, pingVars>>
    /\ nickcurrent' = n
    /\ IF nickChangeInProgress /\ nickChangeFresh
       THEN /\ nick' = n
            /\ nickPending' = n
            /\ UNCHANGED <<nickChangeInProgress, nickChangeFresh, outq>>
       ELSE IF nickcurrent # n
       THEN /\ Room(1)
            /\ nick' = n
            /\ nickChangeInProgress' = TRUE
            /\ nickChangeFresh' = TRUE
            /\ nickPending' = n
            /\ outq' = Append(outq, NickCmd(n))
       ELSE /\ nick' = n
            /\ nickPending' = ""
            /\ nickChangeInProgress' = FALSE
            /\ UNCHANGED <<nickChangeFresh, outq>>

\* Nick without the test for a change in progress
NickAlwaysSends(n) ==
    /\ UNCHANGED <<lifeVars, dispatchVars, parseVars, statusVars>>
    /\ UNCHANGED <<nickcurrent, nickError, fullyConnected, registrationSteps,
                   alternatives, pingVars>>
    /\ IF nickcurrent # n
       THEN /\ Room(1)
            /\ nick' = n
            /\ nickChangeInProgress' = TRUE
            /\ nickChangeFresh' = TRUE
            /\ nickPending' = n
            /\ outq' = Append(outq, NickCmd(n))
       ELSE /\ nick' = n
            /\ nickPending' = ""
            /\ nickChangeInProgress' = FALSE
            /\ UNCHANGED <<nickChangeFresh, outq>>

\* Nick(n), on a session whose outbound queue is live
Nick(n) ==
    /\ UNCHANGED <<lifeVars, dispatchVars, parseVars, statusVars>>
    /\ UNCHANGED <<nickcurrent, nickError, fullyConnected, registrationSteps,
                   alternatives, pingVars>>
    /\ IF nickChangeInProgress /\ nickChangeFresh
       THEN /\ nick' = n
            /\ nickPending' = n
            /\ UNCHANGED <<nickChangeInProgress, nickChangeFresh, outq>>
       ELSE IF nickcurrent # n
       THEN /\ Room(1)
            /\ nick' = n
            /\ nickChangeInProgress' = TRUE
            /\ nickChangeFresh' = TRUE
            /\ nickPending' = n
            /\ outq' = Append(outq, NickCmd(n))
       ELSE /\ nick' = n
            /\ nickPending' = ""
            /\ nickChangeInProgress' = FALSE
            /\ UNCHANGED <<nickChangeFresh, outq>>

\* a probe tick that sends its PING and never looks at the nicknames
PingTickOnlyPings ==
    /\ UNCHANGED <<lifeVars, dispatchVars, parseVars, statusVars>>
    /\ pingPc = "wait"
    /\ Room(1)
    /\ outq' = Append(outq, "PING")
    /\ UNCHANGED <<nickVars, alternatives, pingVars>>

\* pingLoop, case <-ticker2.C: the PING, then the check under the lock
PingTick ==
    /\ UNCHANGED <<lifeVars, dispatchVars, parseVars, statusVars>>
    /\ pingPc = "wait"
    /\ Room(1)
    /\ outq' = Append(outq, "PING")
    /\ UNCHANGED <<nick, nickcurrent, nickError, fullyConnected,
                   registrationSteps, alternatives>>
    /\ IF nick # nickcurrent
       THEN /\ nickPending' = nick
            /\ nickChangeInProgress' = TRUE
            /\ nickChangeFresh' = TRUE
            /\ pingNick' = nick
            /\ pingPc' = "send"
       ELSE UNCHANGED <<nickPending, nickChangeInProgress, nickChangeFresh,
                        pingVars>>

\* pingLoop, the lock released: irc.SendRawf("NICK %s", desiredNick)
PingSendNick ==
    /\ UNCHANGED <<lifeVars, dispatchVars, parseVars, statusVars>>
    /\ pingPc = "send"
    /\ Room(1)
    /\ outq' = Append(outq, NickCmd(pingNick))
    /\ pingPc' = "wait"
    /\ pingNick' = NoNick
    /\ UNCHANGED <<nickVars, alternatives>>

\* writeLoop takes the next message off the queue and writes it
WriteNext ==
    /\ UNCHANGED <<lifeVars, dispatchVars, parseVars, statusVars>>
    /\ outq # <<>>
    /\ outq' = Tail(outq)
    /\ UNCHANGED <<nickVars, alternatives, pingVars>>

\* 30 seconds pass since irc.nickChangeTimeout
DebounceElapses ==
    /\ UNCHANGED <<lifeVars, dispatchVars, parseVars, statusVars>>
    /\ nickChangeFresh
    /\ nickChangeFresh' = FALSE
    /\ UNCHANGED <<nick, nickcurrent, nickPending, nickChangeInProgress,
                   nickError, fullyConnected, registrationSteps, outq,
                   alternatives, pingVars>>

(***************************************************************************)
(* The connection lifecycle.                                               *)
(***************************************************************************)
\* numbers of the connections (sockets, queues, Error channels) of a run
Gens == 1..(MaxConnects + MaxLoopConnects + MaxCapConnects)

\* the two callers of Connect and Reconnect
Procs == {"app", "loop"}

\* what AnalyzeErrorMessage makes of the text of a server ERROR line
ErrorClasses == {"Permanent", "Recoverable", "Server"}

\* the error readLoop posts for an ERROR line of a class
ErrorFor(class) ==
    IF HandleErrorAsDisconnect /\ SmartErrorHandling
    THEN CASE class = "Permanent" -> "Received permanent ERROR from server:"
           [] class = "Recoverable" -> "Received RecoverableError from server:"
           [] OTHER -> "Received ServerError from server:"
    ELSE "Received ERROR from server:"

\* Loop: strings.Contains(errStr, "Received permanent ERROR from server:")
IsPermanent(e) == e = "Received permanent ERROR from server:"
\* Loop: strings.Contains(errStr, "RecoverableError")
IsRecoverable(e) == e = "Received RecoverableError from server:"

Reader(g) == [role |-> "reader", g |-> g, pc |-> "run", e |-> 0, q |-> 0]
Writer(g, e, q) == [role |-> "writer", g |-> g, pc |-> "sel", e |-> e, q |-> q]
Pinger(g, e) == [role |-> "pinger", g |-> g, pc |-> "sel", e |-> e, q |-> 0]

Running(role) == {w \in workers : w.role = role}

\* sync.WaitGroup: Add(3) with the three go statements, Done at each return
WaitGroupZero == workers = {}

\* irc.pwrite <- ..., k messages: waits on a nil or full queue, panics on a
\* closed one
Enqueue(k) ==
    IF k = 0 THEN UNCHANGED <<pwq, panicked>>
    ELSE /\ pw # 0
         /\ IF pw \in pwClosed
            THEN /\ panicked' = TRUE
                 /\ UNCHANGED pwq
            ELSE /\ pwq[pw] + k <= PwriteCap
                 /\ pwq' = [pwq EXCEPT ![pw] = @ + k]
                 /\ UNCHANGED panicked

\* An Error channel or outbound queue nothing refers to any more is
\* garbage: its content is dropped
Collected(q, live, empty) ==
    [g \in Gens |-> IF g \in live THEN q[g] ELSE empty]

WriterQueues(ws) == {w.q : w \in {v \in ws : v.role = "writer"}}

\* errChan <- err on the channel a goroutine captured.  Loop only ever
\* moves on to the current irc.Error, so what is sent on a channel that is
\* neither Loop's nor the current one is never received
Post(ch, e) ==
    /\ Len(errq[ch]) < ErrorCap
    /\ errq' = IF ch \in {errCur, loopChan}
               THEN [errq EXCEPT ![ch] = Append(@, e)]
               ELSE errq

\* the reset Connect, Reconnect and Disconnect do under the lock
ResetRegistration ==
    /\ fullyConnected' = FALSE
    /\ registrationSteps' = 0
    /\ registrationStartTime' = "zero"
    /\ nickPending' = NoNick
    /\ nickChangeInProgress' = FALSE

\* the NICK/USER pair, sent unless irc.sentRegistration; setPending tells
\* the paths that also set irc.nickPending from the handler that does not
Register(extra, setPending) ==
    IF sentRegistration
    THEN /\ Enqueue(extra)
         /\ UNCHANGED <<sentRegistration, nickPending, regCount, registered>>
    ELSE /\ Enqueue(extra + 2)
         /\ sentRegistration' = TRUE
         /\ registered' = registered \cup {pw}
         /\ nickPending' = IF setPending THEN nick ELSE nickPending
         /\ regCount' = regCount + 1

\* Return without Loop's reset of the counter after a successful Reconnect
ReturnKeepsCounter(p, ok) ==
    /\ connectErr' = IF ok THEN "nil" ELSE "error"
    /\ IF p = "loop"
       THEN IF ok
            THEN /\ pc' = [pc EXCEPT ![p] = "top"]
                 /\ loopChan' = errCur
                 /\ loopErr' = ""
                 /\ errq' = Collected(errq, {errCur}, <<>>)
                 /\ UNCHANGED recoverableReconnects
            ELSE /\ pc' = [pc EXCEPT ![p] = "sleep"]
                 /\ UNCHANGED <<loopVars, errq>>
       ELSE /\ pc' = [pc EXCEPT ![p] = "idle"]
            /\ UNCHANGED <<loopVars, errq>>

\* Connect or Reconnect returns to its caller
\* (in Loop: errChan = irc.ErrorChan(), the counter reset, and the next
\* iteration, where err and errStr are fresh)
Return(p, ok) ==
    /\ connectErr' = IF ok THEN "nil" ELSE "error"
    /\ IF p = "loop"
       THEN IF ok
            THEN /\ pc' = [pc EXCEPT ![p] = "top"]
                 /\ loopChan' = errCur
                 /\ recoverableReconnects' = 0
                 /\ loopErr' = ""
                 /\ errq' = Collected(errq, {errCur}, <<>>)
            ELSE /\ pc' = [pc EXCEPT ![p] = "sleep"]
                 /\ UNCHANGED <<loopVars, errq>>
       ELSE /\ pc' = [pc EXCEPT ![p] = "idle"]
            /\ UNCHANGED <<loopVars, errq>>

\* ---- Connect ------------------------------------------------------------
\* the application's first call
Connect ==
    /\ ~panicked
    /\ pc["app"] = "new"
    /\ pc' = [pc EXCEPT !["app"] = "c_lock"]
    /\ UNCHANGED <<nickVars, useSASL, mu, quit, sentRegistration, chanVars,
                   pwq, errq, workers, timers, capHandler, capChan, loopVars,
                   panicked, histVars, viewVars,
                   dispatchVars, parseVars,
                   statusVars>>

\* Connect: the reset under the lock
ConnectReset(p) ==
    /\ ~panicked
    /\ pc[p] = "c_lock"
    /\ mu = "free"
    /\ ResetRegistration
    /\ pc' = [pc EXCEPT ![p] = "c_dial"]
    /\ UNCHANGED <<nick, nickcurrent, nickChangeFresh, nickError, useSASL, mu,
                   quit, sentRegistration, chanVars, pwq, errq, workers,
                   timers, capHandler, capChan, loopVars, panicked, histVars,
                   viewVars,
                   dispatchVars, parseVars,
                   welcomed, enableTimeoutFallback, statusCalls,
                   registered, capVars, connectErr>>

\* Connect: dialer.Dial fails; irc.socket is assigned the nil result
ConnectDialFails(p) ==
    /\ ~panicked
    /\ pc[p] = "c_dial"
    /\ dialFails < MaxDialFails
    /\ dialFails' = dialFails + 1
    /\ sock' = 0
    /\ Return(p, FALSE)
    /\ UNCHANGED <<nickVars, useSASL, mu, quit, sentRegistration, endId,
                   endClosed, ends, sockOpen, pw, pwClosed, errCur, conns, pwq,
                   workers, timers, capHandler, capChan, panicked, regCount,
                   recovStreak, appCalls, ticks, capLines, viewVars,
                   dispatchVars, parseVars,
                   welcomed, enableTimeoutFallback,
                   registrationStartTime, statusCalls, registered, capVars>>

\* Connect: the dial succeeds; new queue, new Error channel, Add(3) and the
\* three goroutines
ConnectDial(p, most) ==
    /\ ~panicked
    /\ pc[p] = "c_dial"
    /\ conns < most
    /\ LET g == conns + 1
       IN /\ conns' = g
          /\ sock' = g
          /\ sockOpen' = sockOpen \cup {g}
          /\ pw' = g
          /\ errCur' = g
          /\ workers' = workers \cup
                          {Reader(g), Writer(g, endId, g), Pinger(g, endId)}
          /\ pwq' = Collected(pwq, {g} \cup WriterQueues(workers), 0)
          /\ errq' = Collected(errq, {g, loopChan}, <<>>)
    /\ regCount' = 0
    /\ pc' = [pc EXCEPT ![p] = "c_caps"]
    /\ UNCHANGED <<nickVars, useSASL, mu, quit, sentRegistration, endId,
                   endClosed, ends, pwClosed, timers, capHandler, capChan,
                   loopVars, panicked, recovStreak, appCalls, dialFails, ticks,
                   capLines, viewVars,
                   dispatchVars, parseVars,
                   statusVars>>

\* negotiateCaps with nothing to negotiate: registration, then return nil
NegotiateNoCaps(p) ==
    /\ ~panicked
    /\ pc[p] = "c_caps"
    /\ ~useSASL
    /\ requestCaps' = {}
    /\ mu = "free"
    /\ Register(0, TRUE)
    /\ Return(p, TRUE)
    /\ UNCHANGED <<nick, nickcurrent, nickChangeInProgress, nickChangeFresh,
                   nickError, fullyConnected, registrationSteps, useSASL, mu,
                   quit, chanVars, workers, timers, capHandler, capChan,
                   recovStreak, appCalls, dialFails, ticks, capLines, viewVars,
                   dispatchVars, parseVars,
                   welcomed, enableTimeoutFallback,
                   registrationStartTime, statusCalls, configuredCaps,
                   capReqs>>

\* negotiateCaps with "sasl" requested: the CAP callback, CAP LS, the
\* fallback goroutine
NegotiateCaps(p) ==
    /\ ~panicked
    /\ pc[p] = "c_caps"
    /\ useSASL
    /\ requestCaps' = {"sasl"}
    /\ capHandler' = TRUE
    /\ capChan' = 0
    /\ Enqueue(1)
    /\ timers' = timers + 1
    /\ pc' = [pc EXCEPT ![p] = "c_sasl"]
    /\ UNCHANGED <<nickVars, useSASL, mu, quit, sentRegistration, chanVars,
                   errq, workers, loopVars, histVars, viewVars,
                   dispatchVars, parseVars,
                   welcomed, enableTimeoutFallback,
                   registrationStartTime, statusCalls, registered,
                   configuredCaps, capReqs, connectErr>>

\* negotiateCaps: a result arrives on saslResChan (sent by the SASL
\* callbacks, which run in a readLoop goroutine)
SaslResult(p, failed) ==
    /\ ~panicked
    /\ pc[p] = "c_sasl"
    /\ Running("reader") # {}
    /\ IF failed
       THEN /\ capHandler' = FALSE
            /\ Return(p, FALSE)
       ELSE /\ pc' = [pc EXCEPT ![p] = "c_cap"]
            /\ UNCHANGED <<capHandler, loopVars, errq, connectErr>>
    /\ UNCHANGED <<nickVars, useSASL, mu, quit, sentRegistration, chanVars,
                   pwq, workers, timers, capChan, panicked, histVars, viewVars,
                   dispatchVars, parseVars,
                   welcomed, enableTimeoutFallback,
                   registrationStartTime, statusCalls, registered, capVars>>

\* the SASL timeout taken for a server without SASL: negotiateCaps goes
\* on to return nil
SaslTimeoutReturnsNil(p) ==
    /\ ~panicked
    /\ pc[p] = "c_sasl"
    /\ capHandler' = FALSE
    /\ Return(p, TRUE)
    /\ UNCHANGED <<nickVars, useSASL, mu, quit, sentRegistration, chanVars,
                   pwq, workers, timers, capChan, panicked, histVars, viewVars,
                   dispatchVars, parseVars,
                   welcomed, enableTimeoutFallback,
                   registrationStartTime, statusCalls, registered, capVars>>

\* negotiateCaps: time.After(CAP_TIMEOUT) fires first
SaslTimeout(p) ==
    /\ ~panicked
    /\ pc[p] = "c_sasl"
    /\ capHandler' = FALSE
    /\ Return(p, FALSE)
    /\ UNCHANGED <<nickVars, useSASL, mu, quit, sentRegistration, chanVars,
                   pwq, workers, timers, capChan, panicked, histVars, viewVars,
                   dispatchVars, parseVars,
                   welcomed, enableTimeoutFallback,
                   registrationStartTime, statusCalls, registered, capVars>>

\* negotiateCaps: the one requested capability is accounted for; CAP END
CapDone(p) ==
    /\ ~panicked
    /\ pc[p] = "c_cap"
    /\ capChan > 0
    /\ capChan' = capChan - 1
    /\ Enqueue(1)
    /\ capHandler' = FALSE
    /\ Return(p, TRUE)
    /\ UNCHANGED <<nickVars, useSASL, mu, quit, sentRegistration, chanVars,
                   workers, timers, histVars, viewVars,
                   dispatchVars, parseVars,
                   welcomed, enableTimeoutFallback,
                   registrationStartTime, statusCalls, registered, capVars>>

\* the listing timeout ending the negotiation with a CAP END
CapTimeoutSendsEnd(p) ==
    /\ ~panicked
    /\ pc[p] = "c_cap"
    /\ Enqueue(1)
    /\ capHandler' = FALSE
    /\ Return(p, TRUE)
    /\ UNCHANGED <<nickVars, useSASL, mu, quit, sentRegistration, chanVars,
                   workers, timers, capChan, histVars, viewVars,
                   dispatchVars, parseVars,
                   welcomed, enableTimeoutFallback,
                   registrationStartTime, statusCalls, registered, capVars>>

\* negotiateCaps: no token within CAP_TIMEOUT; return nil without CAP END
CapTimeout(p) ==
    /\ ~panicked
    /\ pc[p] = "c_cap"
    /\ capHandler' = FALSE
    /\ Return(p, TRUE)
    /\ UNCHANGED <<nickVars, useSASL, mu, quit, sentRegistration, chanVars,
                   pwq, workers, timers, capChan, panicked, histVars, viewVars,
                   dispatchVars, parseVars,
                   welcomed, enableTimeoutFallback,
                   registrationStartTime, statusCalls, registered, capVars>>

\* the fallback goroutine wakes after 800 ms
FallbackTimer ==
    /\ ~panicked
    /\ timers > 0
    /\ mu = "free"
    /\ timers' = timers - 1
    /\ Register(0, TRUE)
    /\ UNCHANGED <<nick, nickcurrent, nickChangeInProgress, nickChangeFresh,
                   nickError, fullyConnected, registrationSteps, useSASL, mu,
                   quit, chanVars, errq, workers, capHandler, capChan, pc,
                   loopVars, recovStreak, appCalls, dialFails, ticks, capLines,
                   viewVars,
                   dispatchVars, parseVars,
                   welcomed, enableTimeoutFallback,
                   registrationStartTime, statusCalls, capVars,
                   connectErr>>

\* ---- Reconnect ----------------------------------------------------------
\* the application calls Reconnect
AppReconnect ==
    /\ ~panicked
    /\ pc["app"] = "idle"
    /\ appCalls < MaxAppCalls
    /\ appCalls' = appCalls + 1
    /\ pc' = [pc EXCEPT !["app"] = "rc_lock"]
    /\ UNCHANGED <<nickVars, useSASL, mu, quit, sentRegistration, chanVars,
                   pwq, errq, workers, timers, capHandler, capChan, loopVars,
                   panicked, regCount, recovStreak, dialFails, ticks, capLines,
                   viewVars,
                   dispatchVars, parseVars,
                   statusVars>>

\* Reconnect: the reset under the lock
ReconnectReset(p) ==
    /\ ~panicked
    /\ pc[p] = "rc_lock"
    /\ mu = "free"
    /\ ResetRegistration
    /\ pc' = [pc EXCEPT ![p] = "rc_end"]
    /\ UNCHANGED <<nick, nickcurrent, nickChangeFresh, nickError, useSASL, mu,
                   quit, sentRegistration, chanVars, pwq, errq, workers,
                   timers, capHandler, capChan, loopVars, panicked, histVars,
                   viewVars,
                   dispatchVars, parseVars,
                   welcomed, enableTimeoutFallback, statusCalls,
                   registered, capVars, connectErr>>

\* Reconnect: irc.end = make(chan struct{}), then Connect(irc.Server)
ReconnectEnd(p) ==
    /\ ~panicked
    /\ pc[p] = "rc_end"
    /\ ends' = ends + 1
    /\ endId' = ends + 1
    /\ pc' = [pc EXCEPT ![p] = "c_lock"]
    /\ UNCHANGED <<nickVars, useSASL, mu, quit, sentRegistration, endClosed,
                   sock, sockOpen, pw, pwClosed, errCur, conns, pwq, errq,
                   workers, timers, capHandler, capChan, loopVars, panicked,
                   histVars, viewVars,
                   dispatchVars, parseVars,
                   statusVars>>

\* ---- Disconnect ---------------------------------------------------------
\* Disconnect: Lock, the reset, defer Unlock
Disconnect ==
    /\ ~panicked
    /\ pc["app"] = "idle"
    /\ appCalls < MaxAppCalls
    /\ mu = "free"
    /\ appCalls' = appCalls + 1
    /\ mu' = "app"
    /\ ResetRegistration
    /\ pc' = [pc EXCEPT !["app"] = "d_close"]
    /\ UNCHANGED <<nick, nickcurrent, nickChangeFresh, nickError, useSASL,
                   quit, sentRegistration, chanVars, pwq, errq, workers,
                   timers, capHandler, capChan, loopVars, panicked, regCount,
                   recovStreak, dialFails, ticks, capLines, viewVars,
                   dispatchVars, parseVars,
                   welcomed, enableTimeoutFallback, statusCalls,
                   registered, capVars, connectErr>>

\* if irc.end != nil { close(irc.end) }; closing a closed channel panics
CloseEnd(p, next) ==
    /\ IF endId = 0
       THEN UNCHANGED <<endClosed, panicked>>
       ELSE IF endId \in endClosed
       THEN /\ panicked' = TRUE
            /\ UNCHANGED endClosed
       ELSE /\ endClosed' = endClosed \cup {endId}
            /\ UNCHANGED panicked
    /\ pc' = [pc EXCEPT ![p] = next]

DisconnectCloseEnd ==
    /\ ~panicked
    /\ pc["app"] = "d_close"
    /\ CloseEnd("app", "d_wait")
    /\ UNCHANGED <<nickVars, useSASL, mu, quit, sentRegistration, endId, ends,
                   sock, sockOpen, pw, pwClosed, errCur, conns, pwq, errq,
                   workers, timers, capHandler, capChan, loopVars, histVars,
                   viewVars,
                   dispatchVars, parseVars,
                   statusVars>>

\* Disconnect: irc.Wait() returns
DisconnectWait ==
    /\ ~panicked
    /\ pc["app"] = "d_wait"
    /\ WaitGroupZero
    /\ pc' = [pc EXCEPT !["app"] = "d_teardown"]
    /\ UNCHANGED <<nickVars, useSASL, mu, quit, sentRegistration, chanVars,
                   pwq, errq, workers, timers, capHandler, capChan, loopVars,
                   panicked, histVars, viewVars,
                   dispatchVars, parseVars,
                   statusVars>>

\* Disconnect: irc.end = nil; close(irc.pwrite); irc.socket.Close()
DisconnectTeardown ==
    /\ ~panicked
    /\ pc["app"] = "d_teardown"
    /\ endId' = 0
    /\ IF pw = 0
       THEN UNCHANGED <<pwClosed, panicked>>
       ELSE IF pw \in pwClosed
       THEN /\ panicked' = TRUE
            /\ UNCHANGED pwClosed
       ELSE /\ pwClosed' = pwClosed \cup {pw}
            /\ UNCHANGED panicked
    /\ sockOpen' = sockOpen \ {sock}
    /\ pc' = [pc EXCEPT !["app"] = "d_post"]
    /\ UNCHANGED <<nickVars, useSASL, mu, quit, sentRegistration, endClosed,
                   ends, sock, pw, errCur, conns, pwq, errq, workers, timers,
                   capHandler, capChan, loopVars, histVars, viewVars,
                   dispatchVars, parseVars,
                   statusVars>>

\* Disconnect: irc.ErrorChan() <- ErrDisconnected, then the deferred Unlock
DisconnectPost ==
    /\ ~panicked
    /\ pc["app"] = "d_post"
    /\ errCur # 0
    /\ Post(errCur, "ErrDisconnected")
    /\ mu' = "free"
    /\ pc' = [pc EXCEPT !["app"] = "idle"]
    /\ UNCHANGED <<nickVars, useSASL, quit, sentRegistration, chanVars, pwq,
                   workers, timers, capHandler, capChan, loopVars, panicked,
                   histVars, viewVars,
                   dispatchVars, parseVars,
                   statusVars>>

\* ---- Quit ---------------------------------------------------------------
\* Quit: irc.SendRaw(quit)
Quit ==
    /\ ~panicked
    /\ pc["app"] = "idle"
    /\ appCalls < MaxAppCalls
    /\ appCalls' = appCalls + 1
    /\ Enqueue(1)
    /\ pc' = [pc EXCEPT !["app"] = "q_lock"]
    /\ UNCHANGED <<nickVars, useSASL, mu, quit, sentRegistration, chanVars,
                   errq, workers, timers, capHandler, capChan, loopVars,
                   regCount, recovStreak, dialFails, ticks, capLines, viewVars,
                   dispatchVars, parseVars,
                   statusVars>>

\* Quit: stopped and quit set under the lock
QuitSet ==
    /\ ~panicked
    /\ pc["app"] = "q_lock"
    /\ mu = "free"
    /\ quit' = TRUE
    /\ pc' = [pc EXCEPT !["app"] = "idle"]
    /\ UNCHANGED <<nickVars, useSASL, mu, sentRegistration, chanVars, pwq,
                   errq, workers, timers, capHandler, capChan, loopVars,
                   panicked, histVars, viewVars,
                   dispatchVars, parseVars,
                   statusVars>>

\* ---- Nick, GetNickStatus, ValidateConnectionState -----------------------
\* a call the application makes between its Connect, Reconnect and
\* Disconnect calls, or before the first Connect
StatusCall ==
    /\ ~panicked
    /\ pc["app"] \in {"new", "idle"}
    /\ mu = "free"
    /\ statusCalls < MaxStatusCalls
    /\ statusCalls' = statusCalls + 1

\* Nick(n): what it does under the lock; "n_new" and "n_send" are the
\* SendRawf that follows the Unlock
NickCall(n) ==
    /\ StatusCall
    /\ nick' = n
    /\ IF nickChangeInProgress /\ nickChangeFresh
       THEN /\ nickPending' = n
            /\ UNCHANGED <<nickChangeInProgress, nickChangeFresh, pc>>
       ELSE IF nickcurrent # n
       THEN /\ nickChangeInProgress' = TRUE
            /\ nickChangeFresh' = TRUE
            /\ nickPending' = n
            /\ pc' = [pc EXCEPT !["app"] =
                         IF @ = "new" THEN "n_new" ELSE "n_send"]
       ELSE /\ nickPending' = ""
            /\ nickChangeInProgress' = FALSE
            /\ UNCHANGED <<nickChangeFresh, pc>>
    /\ UNCHANGED <<nickcurrent, nickError, fullyConnected, registrationSteps,
                   useSASL, mu, quit, sentRegistration, chanVars, pwq, errq,
                   workers, timers, capHandler, capChan, loopVars, panicked,
                   histVars, viewVars, dispatchVars, parseVars, welcomed,
                   enableTimeoutFallback, registrationStartTime,
                   registered, capVars, connectErr>>

\* Nick(n): irc.SendRawf("NICK %s", n), then Lock and the deferred Unlock
NickSend ==
    /\ ~panicked
    /\ pc["app"] \in {"n_new", "n_send"}
    /\ Enqueue(1)
    /\ pc' = [pc EXCEPT !["app"] = IF @ = "n_new" THEN "new" ELSE "idle"]
    /\ UNCHANGED <<nickVars, useSASL, mu, quit, sentRegistration, chanVars,
                   errq, workers, timers, capHandler, capChan, loopVars,
                   histVars, viewVars, dispatchVars, parseVars, statusVars>>

\* GetNickStatus()
CallGetNickStatus ==
    /\ StatusCall
    /\ fullyConnected' = GetNickStatus.Confirmed
    /\ UNCHANGED <<nick, nickcurrent, nickPending, nickChangeInProgress,
                   nickChangeFresh, nickError, registrationSteps, lifeVars,
                   viewVars, dispatchVars, parseVars, welcomed,
                   enableTimeoutFallback, registrationStartTime,
                   registered, capVars, connectErr>>

\* ValidateConnectionState(): the zero-length Read fails on a socket this
\* side has closed
ValidateConnectionState ==
    /\ StatusCall
    /\ fullyConnected' = IF fullyConnected /\ (sock = 0 \/ sock \notin sockOpen)
                         THEN FALSE
                         ELSE fullyConnected
    /\ UNCHANGED <<nick, nickcurrent, nickPending, nickChangeInProgress,
                   nickChangeFresh, nickError, registrationSteps, lifeVars,
                   viewVars, dispatchVars, parseVars, welcomed,
                   enableTimeoutFallback, registrationStartTime,
                   registered, capVars, connectErr>>

\* irc.registrationTimeout passes since irc.registrationStartTime
RegistrationTimeoutElapses ==
    /\ registrationStartTime = "recent"
    /\ registrationStartTime' = "old"
    /\ UNCHANGED <<sessionVars, dispatchVars, parseVars, welcomed,
                   enableTimeoutFallback, statusCalls, registered,
                   capVars, connectErr>>

\* ---- readLoop -----------------------------------------------------------
\* readLoop: the 001 line a server sends once, after the NICK/USER pair of
\* its connection was written; the 001 handler runs under the lock
ReadLoop001(w, arg) ==
    /\ ~panicked
    /\ w.role = "reader"
    /\ w.g \in sockOpen
    /\ w.g \in registered /\ pwq[w.g] = 0
    /\ w.g \notin welcomed
    /\ mu = "free"
    /\ welcomed' = welcomed \cup {w.g}
    /\ registrationStartTime' = "recent"
    /\ nickcurrent' = arg
    /\ nick' = arg
    /\ fullyConnected' = TRUE
    /\ nickError' = ""
    /\ registrationSteps' = 1
    /\ UNCHANGED <<nickPending, nickChangeInProgress, nickChangeFresh,
                   lifeVars, viewVars, dispatchVars, parseVars,
                   enableTimeoutFallback, statusCalls, registered,
                   capVars, connectErr>>

Exit(w) == workers' = workers \ {w}
Move(w, v) == workers' = (workers \ {w}) \cup {v}

\* a writeLoop step: the goroutines after it and the queues still referred to
WriterStep(ws, q) ==
    /\ workers' = ws
    /\ pwq' = Collected(q, {pw} \cup WriterQueues(ws), 0)

\* readLoop: the select at the top of the loop finds the current irc.end
\* closed, at the start or after a line whose callbacks change nothing here
ReadLoopEnd(w) ==
    /\ ~panicked
    /\ w.role = "reader" /\ w.pc = "run"
    /\ w.g \in sockOpen
    /\ endId # 0 /\ endId \in endClosed
    /\ Exit(w)
    /\ UNCHANGED <<nickVars, useSASL, mu, quit, sentRegistration, chanVars,
                   pwq, errq, timers, capHandler, capChan, pc, loopVars,
                   panicked, histVars, viewVars,
                   dispatchVars, parseVars,
                   statusVars>>

\* pingLoop is sending its keep-alive PING inside lastMessageMutex
LastMessageMutexHeld == \E v \in workers : v.role = "pinger" /\ v.pc = "ka"

\* readLoop: br.ReadString returned a line
ReadLoopRead(w) ==
    /\ ~panicked
    /\ w.role = "reader" /\ w.pc = "run"
    /\ w.g \in sockOpen
    /\ Move(w, [w EXCEPT !.pc = "stamp"])
    /\ UNCHANGED <<nickVars, useSASL, mu, quit, sentRegistration, chanVars,
                   pwq, errq, timers, capHandler, capChan, pc, loopVars,
                   panicked, histVars, viewVars,
                   dispatchVars, parseVars,
                   statusVars>>

\* readLoop: lastMessageMutex.Lock(), the time of the line, Unlock(); the
\* line is one whose callbacks change nothing here
ReadLoopStamp(w) ==
    /\ ~panicked
    /\ w.role = "reader" /\ w.pc = "stamp"
    /\ ~LastMessageMutexHeld
    /\ Move(w, [w EXCEPT !.pc = "run"])
    /\ UNCHANGED <<nickVars, useSASL, mu, quit, sentRegistration, chanVars,
                   pwq, errq, timers, capHandler, capChan, pc, loopVars,
                   panicked, histVars, viewVars,
                   dispatchVars, parseVars,
                   statusVars>>

\* readLoop: an ERROR line; the error is posted and the goroutine returns
ReadLoopERROR(w, class) ==
    /\ ~panicked
    /\ w.role = "reader"
    /\ w.g \in sockOpen
    /\ Post(w.g, ErrorFor(class))
    /\ Exit(w)
    /\ UNCHANGED <<nickVars, useSASL, mu, quit, sentRegistration, chanVars,
                   pwq, timers, capHandler, capChan, pc, loopVars, panicked,
                   histVars, viewVars,
                   dispatchVars, parseVars,
                   statusVars>>

\* readLoop: ReadString fails (deadline, peer gone, socket closed)
ReadLoopFails(w) ==
    /\ ~panicked
    /\ w.role = "reader" /\ w.pc = "run"
    /\ Post(w.g, "read error")
    /\ Exit(w)
    /\ UNCHANGED <<nickVars, useSASL, mu, quit, sentRegistration, chanVars,
                   pwq, timers, capHandler, capChan, pc, loopVars, panicked,
                   histVars, viewVars,
                   dispatchVars, parseVars,
                   statusVars>>

\* readLoop runs the CAP callback for "CAP * LS": CAP REQ when the server
\* offers sasl, registration, a token for each capability not offered
ReadLoopCapLS(w, listing) ==
    /\ ~panicked
    /\ w.role = "reader"
    /\ w.g \in sockOpen
    /\ capHandler
    /\ capLines < MaxCapLines
    /\ capLines' = capLines + 1
    /\ mu = "free"
    /\ capReqs' = listing \cap requestCaps
    /\ Register(Cardinality(listing \cap requestCaps), FALSE)
    /\ LET missing_caps == Cardinality(requestCaps \ listing)
       IN /\ capChan + missing_caps <= CapChanCap
          /\ capChan' = capChan + missing_caps
    /\ UNCHANGED <<nick, nickcurrent, nickChangeInProgress, nickChangeFresh,
                   nickError, fullyConnected, registrationSteps, useSASL, mu,
                   quit, chanVars, errq, workers, timers, capHandler, pc,
                   loopVars, recovStreak, appCalls, dialFails, ticks, viewVars,
                   dispatchVars, parseVars,
                   welcomed, enableTimeoutFallback,
                   registrationStartTime, statusCalls, requestCaps,
                   configuredCaps, connectErr>>

\* readLoop runs the CAP callback for "CAP * ACK" or "CAP * NAK" of one
\* capability
ReadLoopCapAck(w) ==
    /\ ~panicked
    /\ w.role = "reader"
    /\ w.g \in sockOpen
    /\ capHandler
    /\ capLines < MaxCapLines
    /\ capLines' = capLines + 1
    /\ capChan < CapChanCap
    /\ capChan' = capChan + 1
    /\ UNCHANGED <<nickVars, useSASL, mu, quit, sentRegistration, chanVars,
                   pwq, errq, workers, timers, capHandler, pc, loopVars,
                   panicked, regCount, recovStreak, appCalls, dialFails, ticks,
                   viewVars,
                   dispatchVars, parseVars,
                   statusVars>>

\* ---- writeLoop ----------------------------------------------------------
\* writeLoop: case <-irc.end
WriteLoopEnd(w) ==
    /\ ~panicked
    /\ w.role = "writer"
    /\ w.e \in endClosed
    /\ WriterStep(workers \ {w}, pwq)
    /\ UNCHANGED <<nickVars, useSASL, mu, quit, sentRegistration, chanVars,
                   errq, timers, capHandler, capChan, pc, loopVars, panicked,
                   histVars, viewVars,
                   dispatchVars, parseVars,
                   statusVars>>

\* writeLoop: a message is taken and written; the next select reads
\* irc.end and irc.pwrite afresh
WriteLoopWrite(w) ==
    /\ ~panicked
    /\ w.role = "writer"
    /\ pwq[w.q] > 0
    /\ LET taken == [pwq EXCEPT ![w.q] = @ - 1]
       IN IF sock = 0
          THEN WriterStep(workers \ {w}, taken)
          ELSE /\ w.g \in sockOpen
               /\ WriterStep((workers \ {w}) \cup
                                {[w EXCEPT !.e = endId, !.q = pw]}, taken)
    /\ UNCHANGED <<nickVars, useSASL, mu, quit, sentRegistration, chanVars,
                   errq, timers, capHandler, capChan, pc, loopVars, panicked,
                   histVars, viewVars,
                   dispatchVars, parseVars,
                   statusVars>>

\* writeLoop: a message is taken and the write fails
WriteLoopFails(w) ==
    /\ ~panicked
    /\ w.role = "writer"
    /\ pwq[w.q] > 0
    /\ sock # 0
    /\ WriterStep(workers \ {w}, [pwq EXCEPT ![w.q] = @ - 1])
    /\ Post(w.g, "write error")
    /\ UNCHANGED <<nickVars, useSASL, mu, quit, sentRegistration, chanVars,
                   timers, capHandler, capChan, pc, loopVars, panicked,
                   histVars, viewVars,
                   dispatchVars, parseVars,
                   statusVars>>

\* writeLoop: the queue it waits on is closed and drained (!ok)
WriteLoopClosed(w) ==
    /\ ~panicked
    /\ w.role = "writer"
    /\ w.q \in pwClosed
    /\ pwq[w.q] = 0
    /\ WriterStep(workers \ {w}, pwq)
    /\ UNCHANGED <<nickVars, useSASL, mu, quit, sentRegistration, chanVars,
                   errq, timers, capHandler, capChan, pc, loopVars, panicked,
                   histVars, viewVars,
                   dispatchVars, parseVars,
                   statusVars>>

\* ---- pingLoop -----------------------------------------------------------
\* pingLoop: case <-irc.end
PingLoopEnd(w) ==
    /\ ~panicked
    /\ w.role = "pinger" /\ w.pc = "sel"
    /\ w.e \in endClosed
    /\ Exit(w)
    /\ UNCHANGED <<nickVars, useSASL, mu, quit, sentRegistration, chanVars,
                   pwq, errq, timers, capHandler, capChan, pc, loopVars,
                   panicked, histVars, viewVars,
                   dispatchVars, parseVars,
                   statusVars>>

\* pingLoop: case <-ticker.C with the keep-alive period over: a PING
PingLoopKeepAlive(w) ==
    /\ ~panicked
    /\ w.role = "pinger" /\ w.pc = "sel"
    /\ ticks < MaxTicks
    /\ ticks' = ticks + 1
    /\ Enqueue(1)
    /\ Move(w, [w EXCEPT !.e = endId])
    /\ UNCHANGED <<nickVars, useSASL, mu, quit, sentRegistration, chanVars,
                   errq, timers, capHandler, capChan, pc, loopVars, regCount,
                   recovStreak, appCalls, dialFails, capLines, viewVars,
                   dispatchVars, parseVars,
                   statusVars>>

\* pingLoop: case <-ticker.C: lastMessageMutex.Lock(), the keep-alive
\* period is over
PingLoopKeepAliveLock(w) ==
    /\ ~panicked
    /\ w.role = "pinger" /\ w.pc = "sel"
    /\ ~LastMessageMutexHeld
    /\ Move(w, [w EXCEPT !.pc = "ka"])
    /\ UNCHANGED <<nickVars, useSASL, mu, quit, sentRegistration, chanVars,
                   pwq, errq, timers, capHandler, capChan, pc, loopVars,
                   panicked, histVars, viewVars,
                   dispatchVars, parseVars,
                   statusVars>>

\* pingLoop: SendRawf("PING %d") with lastMessageMutex held, then Unlock()
PingLoopKeepAliveSend(w) ==
    /\ ~panicked
    /\ w.role = "pinger" /\ w.pc = "ka"
    /\ Enqueue(1)
    /\ Move(w, [w EXCEPT !.pc = "sel", !.e = endId])
    /\ UNCHANGED <<nickVars, useSASL, mu, quit, sentRegistration, chanVars,
                   errq, timers, capHandler, capChan, pc, loopVars, histVars,
                   viewVars,
                   dispatchVars, parseVars,
                   statusVars>>

\* pingLoop: case <-ticker2.C: the PING, then irc.Lock()
PingLoopProbe(w) ==
    /\ ~panicked
    /\ w.role = "pinger" /\ w.pc = "sel"
    /\ ticks < MaxTicks
    /\ ticks' = ticks + 1
    /\ Enqueue(1)
    /\ Move(w, [w EXCEPT !.pc = "lock"])
    /\ UNCHANGED <<nickVars, useSASL, mu, quit, sentRegistration, chanVars,
                   errq, timers, capHandler, capChan, pc, loopVars, regCount,
                   recovStreak, appCalls, dialFails, capLines, viewVars,
                   dispatchVars, parseVars,
                   statusVars>>

\* pingLoop: the lock is taken; desired and confirmed nickname agree here
PingLoopCheck(w) ==
    /\ ~panicked
    /\ w.role = "pinger" /\ w.pc = "lock"
    /\ mu = "free"
    /\ nick = nickcurrent
    /\ Move(w, [w EXCEPT !.pc = "sel", !.e = endId])
    /\ UNCHANGED <<nickVars, useSASL, mu, quit, sentRegistration, chanVars,
                   pwq, errq, timers, capHandler, capChan, pc, loopVars,
                   panicked, histVars, viewVars,
                   dispatchVars, parseVars,
                   statusVars>>

\* ---- Loop ---------------------------------------------------------------
\* the application starts Loop on a session that has an Error channel
Loop ==
    /\ ~panicked
    /\ pc["loop"] = "off"
    /\ pc["app"] = "idle"
    /\ errCur # 0
    /\ loopChan' = errCur
    /\ pc' = [pc EXCEPT !["loop"] = "top"]
    /\ UNCHANGED <<nickVars, useSASL, mu, quit, sentRegistration, chanVars,
                   pwq, errq, workers, timers, capHandler, capChan, loopErr,
                   recoverableReconnects, panicked, histVars, viewVars,
                   dispatchVars, parseVars,
                   statusVars>>

\* Loop: for !irc.isQuitting()
LoopIsQuitting ==
    /\ ~panicked
    /\ pc["loop"] = "top"
    /\ mu = "free"
    /\ pc' = [pc EXCEPT !["loop"] = IF quit THEN "returned" ELSE "recv"]
    /\ UNCHANGED <<nickVars, useSASL, mu, quit, sentRegistration, chanVars,
                   pwq, errq, workers, timers, capHandler, capChan, loopVars,
                   panicked, histVars, viewVars,
                   dispatchVars, parseVars,
                   statusVars>>

\* Loop's decision on the error it received
LoopStops(e) ==
    /\ HandleErrorAsDisconnect
    /\ \/ IsPermanent(e)
       \/ /\ IsRecoverable(e)
          /\ MaxRecoverableReconnects > 0
          /\ recoverableReconnects >= MaxRecoverableReconnects

\* Loop: err := <-errChan and the decision
LoopReceive ==
    /\ ~panicked
    /\ pc["loop"] = "recv"
    /\ errq[loopChan] # <<>>
    /\ LET e == Head(errq[loopChan])
       IN /\ errq' = [errq EXCEPT ![loopChan] = Tail(@)]
          /\ loopErr' = e
          /\ recovStreak' = IF IsRecoverable(e) THEN recovStreak + 1 ELSE 0
          /\ pc' = [pc EXCEPT !["loop"] =
                       IF LoopStops(e) THEN "returned" ELSE "close"]
    /\ UNCHANGED <<nickVars, useSASL, mu, quit, sentRegistration, chanVars,
                   pwq, workers, timers, capHandler, capChan, loopChan,
                   recoverableReconnects, panicked, regCount, appCalls,
                   dialFails, ticks, capLines, viewVars,
                   dispatchVars, parseVars,
                   statusVars>>

\* Loop: if irc.end != nil { close(irc.end) }
LoopCloseEnd ==
    /\ ~panicked
    /\ pc["loop"] = "close"
    /\ CloseEnd("loop", "wait")
    /\ UNCHANGED <<nickVars, useSASL, mu, quit, sentRegistration, endId, ends,
                   sock, sockOpen, pw, pwClosed, errCur, conns, pwq, errq,
                   workers, timers, capHandler, capChan, loopVars, histVars,
                   viewVars,
                   dispatchVars, parseVars,
                   statusVars>>

\* Loop: irc.Wait() returns
LoopWait ==
    /\ ~panicked
    /\ pc["loop"] = "wait"
    /\ WaitGroupZero
    /\ pc' = [pc EXCEPT !["loop"] = "inner"]
    /\ UNCHANGED <<nickVars, useSASL, mu, quit, sentRegistration, chanVars,
                   pwq, errq, workers, timers, capHandler, capChan, loopVars,
                   panicked, histVars, viewVars,
                   dispatchVars, parseVars,
                   statusVars>>

\* Loop: the inner for !irc.isQuitting(), the counter, the call of Reconnect
LoopReconnect ==
    /\ ~panicked
    /\ pc["loop"] = "inner"
    /\ mu = "free"
    /\ IF quit
       THEN /\ pc' = [pc EXCEPT !["loop"] = "returned"]
            /\ UNCHANGED recoverableReconnects
       ELSE /\ recoverableReconnects' =
                  IF IsRecoverable(loopErr) THEN recoverableReconnects + 1
                  ELSE recoverableReconnects
            /\ pc' = [pc EXCEPT !["loop"] = "rc_lock"]
    /\ UNCHANGED <<nickVars, useSASL, mu, quit, sentRegistration, chanVars,
                   pwq, errq, workers, timers, capHandler, capChan, loopErr,
                   loopChan, panicked, histVars, viewVars,
                   dispatchVars, parseVars,
                   statusVars>>

\* Loop: time.Sleep(60 * time.Second) after a failed Reconnect
LoopSleep ==
    /\ ~panicked
    /\ pc["loop"] = "sleep"
    /\ pc' = [pc EXCEPT !["loop"] = "inner"]
    /\ UNCHANGED <<nickVars, useSASL, mu, quit, sentRegistration, chanVars,
                   pwq, errq, workers, timers, capHandler, capChan, loopVars,
                   panicked, histVars, viewVars,
                   dispatchVars, parseVars,
                   statusVars>>

(***************************************************************************)
(* Spec: a session constructed by IRC(), connected by the application,     *)
(* with Loop running and the application calling Disconnect, Reconnect or  *)
(* Quit while the server sends lines and the network fails.                *)
(***************************************************************************)
InitLife ==
    /\ mu = "free"
    /\ quit = FALSE
    /\ sentRegistration = FALSE
    /\ endId = 1
    /\ endClosed = {}
    /\ ends = 1
    /\ sock = 0
    /\ sockOpen = {}
    /\ pw = 0
    /\ pwq = [g \in Gens |-> 0]
    /\ pwClosed = {}
    /\ errCur = 0
    /\ errq = [g \in Gens |-> <<>>]
    /\ conns = 0
    /\ workers = {}
    /\ timers = 0
    /\ capHandler = FALSE
    /\ capChan = 0
    /\ pc = [p \in Procs |-> IF p = "app" THEN "new" ELSE "off"]
    /\ loopErr = ""
    /\ loopChan = 0
    /\ recoverableReconnects = 0
    /\ panicked = FALSE
    /\ regCount = 0
    /\ recovStreak = 0
    /\ appCalls = 0
    /\ dialFails = 0
    /\ ticks = 0
    /\ capLines = 0

InitSession ==
    /\ nick = "bob"
    /\ nickcurrent = nick
    /\ nickPending = NoNick
    /\ nickChangeInProgress = FALSE
    /\ nickChangeFresh = FALSE
    /\ nickError = ""
    /\ fullyConnected = FALSE
    /\ registrationSteps = 0
    /\ outq = <<>>
    /\ pingPc = "wait"
    /\ pingNick = NoNick
    /\ alternatives = 0
    /\ InitLife

\* no handler registered, no event dispatched
InitEvents ==
    /\ events = {}
    /\ idCounter = 0
    /\ callbackTimeout = FALSE
    /\ evIn = [code |-> "", args |-> <<>>]
    /\ evCode = ""
    /\ evArgs = <<>>
    /\ rcPc = "idle"
    /\ snap = {}
    /\ callbacks = {}
    /\ jobs = <<>>
    /\ invoked = <<>>
    /\ ctxDone = FALSE

\* no line parsed
InitLine ==
    /\ line = <<>>
    /\ parsed = [status |-> "pending"]
    /\ errorText = <<>>
    /\ errorType = "pending"

\* IRC(): no 001 yet, registrationStartTime zero, EnableTimeoutFallback off
InitStatus ==
    /\ welcomed = {}
    /\ enableTimeoutFallback = FALSE
    /\ registrationStartTime = "zero"
    /\ statusCalls = 0
    /\ registered = {}
    /\ requestCaps = {}
    /\ configuredCaps = {}
    /\ capReqs = {}
    /\ connectErr = "none"

Init ==
    /\ useSASL = FALSE
    /\ InitSession
    /\ InitEvents
    /\ InitLine
    /\ InitStatus

\* Connect and Reconnect, whoever calls them
ConnectStep(most) ==
    \/ Connect
    \/ \E p \in Procs : ConnectReset(p)
    \/ \E p \in Procs : ConnectDial(p, most)
    \/ \E p \in Procs : NegotiateNoCaps(p)
    \/ \E p \in Procs : ReconnectReset(p)
    \/ \E p \in Procs : ReconnectEnd(p)

\* the three goroutines of a connection, the server and the network
WorkerStep ==
    \/ \E w \in workers : ReadLoopEnd(w)
    \/ \E w \in workers, c \in ErrorClasses : ReadLoopERROR(w, c)
    \/ \E w \in workers : ReadLoopFails(w)
    \/ \E w \in workers : WriteLoopEnd(w)
    \/ \E w \in workers : WriteLoopWrite(w)
    \/ \E w \in workers : WriteLoopFails(w)
    \/ \E w \in workers : PingLoopEnd(w)

LoopStep ==
    \/ Loop
    \/ LoopIsQuitting
    \/ LoopReceive
    \/ LoopCloseEnd
    \/ LoopWait
    \/ LoopReconnect

\* failed dials and pingLoop's ticks
SlowStep ==
    \/ \E p \in Procs : ConnectDialFails(p)
    \/ LoopSleep
    \/ \E w \in workers : PingLoopKeepAlive(w)
    \/ \E w \in workers : PingLoopProbe(w)
    \/ \E w \in workers : PingLoopCheck(w)

Next ==
    \/ ConnectStep(MaxConnects)
    \/ WorkerStep
    \/ LoopStep
    \/ SlowStep
    \/ AppReconnect
    \/ Disconnect
    \/ DisconnectCloseEnd
    \/ DisconnectWait
    \/ DisconnectTeardown
    \/ DisconnectPost
    \/ \E w \in workers : WriteLoopClosed(w)
    \/ Quit
    \/ QuitSet

Spec == Init /\ [][Next]_vars

(***************************************************************************)
(* SpecLoop: the application connects, starts Loop and then leaves the     *)
(* session to it.                                                          *)
(***************************************************************************)
NextLoop ==
    \/ ConnectStep(MaxLoopConnects)
    \/ WorkerStep
    \/ LoopStep
    \/ SlowStep

SpecLoop == Init /\ [][NextLoop]_vars

(***************************************************************************)
(* SpecCaps: the registration paths of negotiateCaps, with and without a   *)
(* capability to negotiate, over the connections Loop makes.               *)
(***************************************************************************)
InitCaps ==
    /\ useSASL \in BOOLEAN
    /\ InitSession
    /\ InitEvents
    /\ InitLine
    /\ welcomed = {}
    /\ enableTimeoutFallback = FALSE
    /\ registrationStartTime = "zero"
    /\ statusCalls = 0
    /\ registered = {}
    /\ requestCaps \in CapConfigs
    /\ configuredCaps = requestCaps
    /\ capReqs = {}
    /\ connectErr = "none"

NextCaps ==
    \/ ConnectStep(MaxCapConnects)
    \/ WorkerStep
    \/ LoopStep
    \/ LoopSleep
    \/ \E p \in Procs : NegotiateCaps(p)
    \/ \E p \in Procs, failed \in BOOLEAN : SaslResult(p, failed)
    \/ \E p \in Procs : SaslTimeout(p)
    \/ \E p \in Procs : CapDone(p)
    \/ \E p \in Procs : CapTimeout(p)
    \/ FallbackTimer
    \/ \E w \in workers, listing \in Listings : ReadLoopCapLS(w, listing)
    \/ \E w \in workers : ReadLoopCapAck(w)

SpecCaps == InitCaps /\ [][NextCaps]_vars

(***************************************************************************)
(* SpecSasl: the application alone connects and reconnects, with SASL      *)
(* requested.                                                              *)
(***************************************************************************)
InitSasl ==
    /\ useSASL = TRUE
    /\ InitSession
    /\ InitEvents
    /\ InitLine
    /\ welcomed = {}
    /\ enableTimeoutFallback = FALSE
    /\ registrationStartTime = "zero"
    /\ statusCalls = 0
    /\ registered = {}
    /\ requestCaps \in CapConfigs
    /\ configuredCaps = requestCaps
    /\ capReqs = {}
    /\ connectErr = "none"

NextSasl ==
    \/ Connect
    \/ AppReconnect
    \/ \E p \in Procs : ReconnectReset(p)
    \/ \E p \in Procs : ReconnectEnd(p)
    \/ \E p \in Procs : ConnectReset(p)
    \/ \E p \in Procs : ConnectDial(p, MaxCapConnects)
    \/ \E p \in Procs : NegotiateCaps(p)
    \/ \E p \in Procs, failed \in BOOLEAN : SaslResult(p, failed)
    \/ \E p \in Procs : SaslTimeout(p)
    \/ \E p \in Procs : CapDone(p)
    \/ \E p \in Procs : CapTimeout(p)
    \/ FallbackTimer
    \/ \E w \in workers, listing \in Listings : ReadLoopCapLS(w, listing)
    \/ \E w \in workers : ReadLoopCapAck(w)
    \/ \E w \in workers : WriteLoopWrite(w)

SpecSasl == InitSasl /\ [][NextSasl]_vars

(***************************************************************************)
(* SpecWorkers: one connection and its three goroutines, with the         *)
(* keep-alive ticker firing as often as it likes.                          *)
(***************************************************************************)
NextWorkers ==
    \/ Connect
    \/ \E p \in Procs : ConnectReset(p)
    \/ \E p \in Procs : ConnectDial(p, MaxConnects)
    \/ \E p \in Procs : NegotiateNoCaps(p)
    \/ \E w \in workers : ReadLoopRead(w)
    \/ \E w \in workers : ReadLoopStamp(w)
    \/ \E w \in workers : ReadLoopFails(w)
    \/ \E w \in workers : WriteLoopWrite(w)
    \/ \E w \in workers : WriteLoopFails(w)
    \/ \E w \in workers : PingLoopKeepAliveLock(w)
    \/ \E w \in workers : PingLoopKeepAliveSend(w)

SpecWorkers == Init /\ [][NextWorkers]_vars

(***************************************************************************)
(* SpecShutdown: the application connects with SASL requested and          *)
(* disconnects; no Loop.                                                   *)
(***************************************************************************)
NextShutdown ==
    \/ Connect
    \/ \E p \in Procs : ConnectReset(p)
    \/ \E p \in Procs : ConnectDial(p, MaxCapConnects)
    \/ \E p \in Procs : NegotiateCaps(p)
    \/ \E p \in Procs, failed \in BOOLEAN : SaslResult(p, failed)
    \/ \E p \in Procs : SaslTimeout(p)
    \/ \E p \in Procs : CapDone(p)
    \/ \E p \in Procs : CapTimeout(p)
    \/ FallbackTimer
    \/ \E w \in workers, listing \in Listings : ReadLoopCapLS(w, listing)
    \/ \E w \in workers : ReadLoopCapAck(w)
    \/ WorkerStep
    \/ Disconnect
    \/ DisconnectCloseEnd
    \/ DisconnectWait
    \/ DisconnectTeardown
    \/ DisconnectPost

SpecShutdown == InitSasl /\ [][NextShutdown]_vars

(***************************************************************************)
(* SpecCalls: the application connects, reconnects and disconnects, and    *)
(* between these calls asks for nicknames and for the session's status,    *)
(* while the servers welcome the connections; no Loop.                     *)
(***************************************************************************)
InitCalls ==
    /\ useSASL = FALSE
    /\ InitSession
    /\ InitEvents
    /\ InitLine
    /\ welcomed = {}
    /\ enableTimeoutFallback \in BOOLEAN
    /\ registrationStartTime = "zero"
    /\ statusCalls = 0
    /\ registered = {}
    /\ requestCaps = {}
    /\ configuredCaps = {}
    /\ capReqs = {}
    /\ connectErr = "none"

NextCalls ==
    \/ ConnectStep(MaxConnects)
    \/ \E p \in Procs : ConnectDialFails(p)
    \/ WorkerStep
    \/ AppReconnect
    \/ Disconnect
    \/ DisconnectCloseEnd
    \/ DisconnectWait
    \/ DisconnectTeardown
    \/ DisconnectPost
    \/ CallGetNickStatus
    \/ ValidateConnectionState
    \/ \E n \in ReqNicks : NickCall(n)
    \/ NickSend
    \/ RegistrationTimeoutElapses
    \/ DebounceElapses
    \/ \E w \in workers, a \in WelcomeArgs : ReadLoop001(w, a)

SpecCalls == InitCalls /\ [][NextCalls]_vars

(***************************************************************************)
(* SpecNick: a session whose Connect has returned (registration sent and    *)
(* written) receiving any interleaving of replies, notifications and       *)
(* caller requests; the lifecycle stands still.                            *)
(***************************************************************************)
InitNick ==
    /\ nick \in InitNicks
    /\ nickcurrent = nick
    /\ nickPending = nick
    /\ nickChangeInProgress = FALSE
    /\ nickChangeFresh = FALSE
    /\ nickError = ""
    /\ fullyConnected = FALSE
    /\ registrationSteps = 0
    /\ outq = <<>>
    /\ pingPc = "wait"
    /\ pingNick = NoNick
    /\ alternatives = 0
    /\ useSASL = FALSE
    /\ mu = "free"
    /\ quit = FALSE
    /\ sentRegistration = TRUE
    /\ endId = 1
    /\ endClosed = {}
    /\ ends = 1
    /\ sock = 1
    /\ sockOpen = {1}
    /\ pw = 1
    /\ pwq = [g \in Gens |-> 0]
    /\ pwClosed = {}
    /\ errCur = 1
    /\ errq = [g \in Gens |-> <<>>]
    /\ conns = 1
    /\ workers = {Reader(1), Writer(1, 1, 1), Pinger(1, 1)}
    /\ timers = 0
    /\ capHandler = FALSE
    /\ capChan = 0
    /\ pc = [p \in Procs |-> IF p = "app" THEN "idle" ELSE "off"]
    /\ loopErr = ""
    /\ loopChan = 0
    /\ recoverableReconnects = 0
    /\ panicked = FALSE
    /\ regCount = 1
    /\ recovStreak = 0
    /\ appCalls = 0
    /\ dialFails = 0
    /\ ticks = 0
    /\ capLines = 0
    /\ InitEvents
    /\ InitLine
    /\ InitStatus

NextNick ==
    \/ \E a \in RejectedArgs : Handle433(a)
    \/ \E a \in RejectedArgs : Handle437(a)
    \/ \E a \in RejectedArgs : Handle436(a)
    \/ \E a \in RejectedArgs : Handle432(a)
    \/ Handle431
    \/ Handle484
    \/ \E s \in NickSources, t \in NickTargets : HandleNICK(s, t)
    \/ \E a \in WelcomeArgs : Handle001(a)
    \/ \E n \in ReqNicks : Nick(n)
    \/ PingTick
    \/ PingSendNick
    \/ WriteNext
    \/ DebounceElapses

SpecNick == InitNick /\ [][NextNick]_vars

(***************************************************************************)
(* SpecRequests: the same session with the caller's requests, the          *)
(* confirmations and two kinds of rejection (433 and 484) only.            *)
(***************************************************************************)
NextRequests ==
    \/ \E n \in ReqNicks : Nick(n)
    \/ \E a \in RejectedArgs : Handle433(a)
    \/ Handle484
    \/ \E s \in NickSources, t \in NickTargets : HandleNICK(s, t)
    \/ \E a \in WelcomeArgs : Handle001(a)
    \/ PingTick
    \/ PingSendNick
    \/ WriteNext
    \/ DebounceElapses

SpecRequests == InitNick /\ [][NextRequests]_vars

\* SpecProbe: SpecRequests with the queue served: writeLoop goes on taking
\* messages, and a sender waiting on the queue gets its turn
SpecProbe ==
    SpecRequests /\ SF_vars(PingSendNick) /\ WF_vars(WriteNext)

(***************************************************************************)
(* Claims about the nickname state machine (checked under SpecNick, those  *)
(* about Nick() under SpecRequests).                                       *)
(***************************************************************************)

\* C1: the confirmed nickname (nickcurrent, what GetNick returns) changes
\* only in a step that handles a 001 reply or a NICK notification whose
\* source nick is the confirmed nickname; no rejection reply and no Nick()
\* call changes it.
C1_ConfirmedOnlyByConfirmation ==
    [][GetNick' # GetNick =>
          \/ \E a \in WelcomeArgs : Handle001(a)
          \/ \E t \in NickTargets : HandleNICK(nickcurrent, t)]_vars

\* C2: a 433 reply naming the desired nickname makes the pending nickname
\* the alternative derived from the desired one, enqueues exactly one NICK
\* command carrying that alternative and leaves the confirmed nickname alone.
C2_RejectionSetsPendingOnly ==
    [][Handle433(nick) =>
          /\ nickPending' = ModifiedNick(nick)
          /\ outq' = Append(outq, NickCmd(ModifiedNick(nick)))
          /\ nickcurrent' = nickcurrent]_vars

\* C3: a NICK notification confirming a change leaves the desired nickname
\* unchanged when it differs from the old confirmed nickname, and overwrites
\* it with the new confirmed value only when it was equal to the old one.
C3_DesiredKeptWhenDiverged ==
    [][\A t \in NickTargets \ {NoNick} :
          HandleNICK(nickcurrent, t) =>
              /\ nick' = (IF nick = nickcurrent THEN t ELSE nick)
              /\ (nick # nickcurrent /\ nick # t) =>
                 GetNickStatus'.PendingChange]_vars

\* C4: a NICK notification whose source nick equals the confirmed nickname
\* makes the announced nickname the confirmed one, clears the pending
\* nickname and clears the stored nickname error.
C4_ConfirmationClearsPending ==
    [][\A t \in NickTargets \ {NoNick} :
          HandleNICK(nickcurrent, t) =>
              /\ nickcurrent' = t
              /\ nickPending' = NoNick
              /\ nickError' = ""]_vars

\* C21: Nick(n) makes n the desired nickname and leaves the confirmed one
\* alone; GetNickStatus then reports the old confirmed nickname as Current,
\* n as Desired, and PendingChange exactly when the two differ.
C21_NickSetsDesiredOnly ==
    [][\A n \in ReqNicks :
          Nick(n) =>
              /\ nick' = n
              /\ nickcurrent' = nickcurrent
              /\ GetNickStatus'.Current = nickcurrent
              /\ GetNickStatus'.Desired = n
              /\ GetNickStatus'.PendingChange = (n # nickcurrent)]_vars

\* Nick has asked for a nickname that is not the confirmed one
C21_Witness ==
    /\ nick \in ReqNicks
    /\ nick # nickcurrent
    /\ nickPending = nick
    /\ nickChangeInProgress
    /\ outq = <<NickCmd(nick)>>
    /\ GetNickStatus.PendingChange
    /\ GetNickStatus.Current \in InitNicks

\* C22: handling a 001 reply makes its first argument the confirmed and the
\* desired nickname, marks the session fully connected and clears the
\* pending nickname and the stored nickname error.
C22_WelcomeSeedsIdentity ==
    [][\A a \in WelcomeArgs :
          Handle001(a) =>
              /\ nickcurrent' = a
              /\ nick' = a
              /\ fullyConnected'
              /\ nickPending' = NoNick
              /\ nickError' = ""]_vars

\* C29: when a 433, 436 or 437 rejects the alternative the client derived
\* from the desired nickname and sent, the client enqueues a NICK with a
\* further alternative derived from the rejected one.
C29_RejectedAlternativeRetried ==
    [][\A a \in RejectedArgs :
          (/\ a = nickcurrent
           /\ nickcurrent = ModifiedNick(nick)
           /\ Handle433(a) \/ Handle436(a) \/ Handle437(a))
          => outq' = Append(outq, NickCmd(ModifiedNick(a)))]_vars

\* C31: a tick of the probe-frequency ticker that finds the desired
\* nickname different from the confirmed one goes on to send a NICK for
\* that desired nickname, and the NICK does get enqueued: a desired
\* nickname that was rejected, or whose request was coalesced, is asked
\* for again.
C31_ProbeRetriesDesired ==
    /\ [][(PingTick /\ nick # nickcurrent)
           => pingPc' = "send" /\ pingNick' = nick]_vars
    /\ [][PingSendNick => outq' = Append(outq, NickCmd(pingNick))]_vars
    /\ (pingPc = "send") ~> (pingPc = "wait")

\* a tick found the desired nickname, rejected before, still not confirmed
C31_Witness ==
    /\ pingPc = "send" /\ pingNick = nick /\ nick # nickcurrent
    /\ nickError # "" /\ nickPending = nick /\ nickChangeInProgress

\* C37: handling a 484 reply records the error text and changes nothing
\* else: the desired, confirmed and pending nicknames stay, no alternative
\* is generated and no NICK is enqueued.
C37_RestrictedChangesNothing ==
    [][Handle484 =>
          /\ nickError' = "Restricted nickname"
          /\ UNCHANGED <<nick, nickcurrent, nickPending, outq, alternatives,
                         nickChangeInProgress>>]_vars

\* a 484 was handled while a request for another nickname was outstanding
C37_Witness ==
    /\ nickError = "Restricted nickname"
    /\ nick # nickcurrent /\ nickPending = nick /\ nickChangeInProgress
    /\ alternatives = 0 /\ outq = <<NickCmd(nick)>>

\* C30: Nick(n) while a change is in progress and younger than the debounce
\* window sets desired and pending to n and enqueues nothing; otherwise,
\* when n is not the confirmed nickname, it sets desired and pending to n
\* and enqueues exactly one NICK n.
C30_DebounceCoalesces ==
    [][\A n \in ReqNicks :
          Nick(n) =>
              IF nickChangeInProgress /\ nickChangeFresh
              THEN /\ nick' = n
                   /\ nickPending' = n
                   /\ outq' = outq
              ELSE n # nickcurrent =>
                       /\ nick' = n
                       /\ nickPending' = n
                       /\ outq' = Append(outq, NickCmd(n))]_vars

\* a second request was coalesced: the queue holds the NICK of the first,
\* desired and pending are those of the second
C30_Witness ==
    /\ nickChangeInProgress
    /\ nickChangeFresh
    /\ nick = "bob"
    /\ nickPending = "bob"
    /\ outq = <<NickCmd("alice")>>
    /\ nickError = ""
    /\ ~fullyConnected

(***************************************************************************)
(* Claims about Loop (checked under SpecLoop).                             *)
(***************************************************************************)

\* C5: with MaxRecoverableReconnects = 3, once Loop has received a fourth
\* consecutive Recoverable failure it has returned: it does not go on to
\* close the connection down and call Reconnect a fourth time.
C5_RecoverableCeiling ==
    recovStreak > MaxRecoverableReconnects => pc["loop"] = "returned"

\* Loop is inside the Reconnect it called
LoopInReconnect == pc["loop"] \in {"rc_lock", "rc_end", "c_lock", "c_dial"}

\* the error readLoop posted for a Permanent ERROR waits on Loop's channel
PermanentWaiting ==
    /\ loopChan # 0
    /\ \E i \in 1..Len(errq[loopChan]) : IsPermanent(errq[loopChan][i])

\* C6: when the server has sent an ERROR classified as Permanent, Loop
\* returns: it is never found inside Reconnect while the error readLoop
\* posted for that ERROR waits on its channel.
C6_PermanentHaltsLoop == PermanentWaiting => ~LoopInReconnect

\* Loop returned because of a Permanent failure or the ceiling
LoopHalted == pc["loop"] = "returned" /\ ~quit

\* C7: after Loop has halted on a Permanent failure or on the ceiling, the
\* session does nothing more: no reader, writer or keep-alive goroutine is
\* left, and no step enqueues or writes a message.
C7_NoActivityAfterHalt ==
    [][LoopHalted => (workers = {} /\ pwq' = pwq)]_vars

(***************************************************************************)
(* Claims about registration (checked under SpecCaps).                     *)
(***************************************************************************)

\* the current connection attempt has nothing left that could register:
\* negotiateCaps has returned and no fallback goroutine is asleep
RegistrationSettled ==
    /\ conns > 0
    /\ timers = 0
    /\ \A p \in Procs : pc[p] \notin {"c_caps", "c_sasl", "c_cap"}

\* C8: on every connection attempt the NICK/USER pair is enqueued exactly
\* once: never twice, and once negotiateCaps has returned and the fallback
\* timers have fired it has been enqueued.
C8_RegistrationOncePerAttempt ==
    /\ regCount <= 1
    /\ RegistrationSettled => regCount = 1

(***************************************************************************)
(* Claims about the application's calls (checked under Spec).              *)
(***************************************************************************)

\* C9: at every moment there is at most one readLoop, one writeLoop and one
\* pingLoop goroutine, and at most one open socket.
C9_OneConnectionAtATime ==
    /\ \A role \in {"reader", "writer", "pinger"} :
           Cardinality(Running(role)) <= 1
    /\ Cardinality(sockOpen) <= 1

\* C10: Disconnect closes the outbound queue and the socket only when the
\* reader, writer and keep-alive goroutines have all exited.
C10_TeardownAfterWorkers ==
    [][(pc["app"] = "d_teardown" /\ pc'["app"] # "d_teardown")
          => workers = {}]_vars

(***************************************************************************)
(* Claims about shutdown and reconnection.                                 *)
(***************************************************************************)

\* Disconnect has broadcast the shutdown signal and waits in irc.Wait(),
\* still holding the mutex it took on entry
ShutdownBroadcast == pc["app"] = "d_wait"

\* pingLoop sits in irc.Lock() after its probe-frequency PING
WaitsForMutex(w) == w.role = "pinger" /\ w.pc = "lock" /\ mu # "free"

\* C11: once Disconnect has broadcast the shutdown signal every worker can
\* still reach its exit: none of them waits for the mutex that Disconnect
\* holds until the workers have exited.
C11_WorkersExitAfterShutdown ==
    ShutdownBroadcast => \A w \in workers : ~WaitsForMutex(w)

\* Quit() has been called: it has sent QUIT, or has gone on to set irc.quit
QuitCalled == pc["app"] = "q_lock" \/ quit

\* C12: once Quit() has been called Loop never starts another reconnect.
C12_NoReconnectAfterQuit ==
    [][QuitCalled => ~(pc["loop"] = "inner" /\ pc'["loop"] = "rc_lock")]_vars

\* the positions of Loop inside Reconnect and the Connect it calls
LoopConnecting ==
    pc["loop"] \in {"rc_lock", "rc_end", "c_lock", "c_dial", "c_caps",
                    "c_sasl", "c_cap"}

ERRORTexts == {ErrorFor(class) : class \in ErrorClasses}

\* C14: with HandleErrorAsDisconnect on, Loop does not call Reconnect for an
\* error that readLoop posted for an ERROR line of the server.
C14_NoReconnectAfterERROR ==
    (HandleErrorAsDisconnect /\ loopErr \in ERRORTexts) => ~LoopConnecting

\* the application is inside Disconnect while Loop runs
DisconnectCalled ==
    /\ pc["app"] \in {"d_close", "d_wait", "d_teardown", "d_post"}
    /\ pc["loop"] \in {"top", "recv"}
    /\ ~quit

\* Everything that can happen happens: the goroutines are scheduled, and
\* what the server or the network may do they do
SpecLive == Spec /\ WF_vars(Next)

\* C15: when the application calls Disconnect() (and not Quit()) while Loop
\* runs, Loop goes on to reconnect.
C15_DisconnectThenReconnect ==
    DisconnectCalled ~> (pc["loop"] = "rc_lock")

\* the send on the outbound queue cannot proceed: no queue, or a full one
QueueBlocks == pw = 0 \/ (pw \notin pwClosed /\ pwq[pw] >= PwriteCap)

\* C32: no worker waits for a lock that another worker holds while that
\* worker is itself blocked: readLoop never waits for lastMessageMutex
\* while pingLoop, holding it, waits on the outbound queue.
C32_NoWaitOnBlockedWorker ==
    \A w \in workers :
        ~(/\ w.role = "reader" /\ w.pc = "stamp"
          /\ LastMessageMutexHeld
          /\ QueueBlocks)

\* C33: the shutdown signal of a connection is closed at most once: no
\* close, by Loop's failure handling or by Disconnect(), finds the signal
\* it closes already closed.
C33_EndClosedOnce ==
    [][(LoopCloseEnd \/ DisconnectCloseEnd)
          => (endId = 0 \/ endId \notin endClosed)]_vars

\* C34: nothing inside the library sends on an outbound queue that
\* Disconnect() has closed: neither the registration fallback timer, nor
\* a handler the reader runs, nor the keep-alive worker, nor Connect's own
\* sends.
C34_NoSendOnClosedQueue ==
    [][(\/ FallbackTimer
        \/ \E w \in workers : PingLoopKeepAlive(w) \/ PingLoopProbe(w)
        \/ \E w \in workers, listing \in Listings : ReadLoopCapLS(w, listing)
        \/ \E p \in Procs : NegotiateCaps(p) \/ CapDone(p))
          => ~panicked']_vars

(***************************************************************************)
(* Claims about capability negotiation (checked under SpecSasl and         *)
(* SpecCaps).                                                              *)
(***************************************************************************)
\* C24: with SASL requested, when the server rejects the authentication or
\* no SASL result arrives within CAP_TIMEOUT, Connect returns to its
\* caller with a non-nil error.
C24_SaslFailureFailsConnect ==
    [][\A p \in Procs :
          (useSASL /\ (SaslResult(p, TRUE) \/ SaslTimeout(p)))
          => connectErr' = "error" /\ pc'[p] \in {"idle", "sleep"}]_vars

\* a Connect with SASL requested that came back with an error, no dial
\* having failed
C24_Witness ==
    /\ useSASL /\ connectErr = "error" /\ pc["app"] = "idle"
    /\ conns > 0 /\ dialFails = 0 /\ ~capHandler

\* C25: when the server's capability listing arrives, a CAP REQ is sent for
\* every capability that is both in the RequestCaps the application
\* configured and in the listing.
C25_RequestsMutualCaps ==
    [][\A w \in workers, listing \in Listings :
          ReadLoopCapLS(w, listing)
          => (configuredCaps \cap listing) \subseteq capReqs']_vars

C23_FullyConnectedNeeds001 ==
    ~enableTimeoutFallback =>
        /\ fullyConnected => sock # 0 /\ sock \in welcomed
        /\ pc["app"] \in {"rc_end", "c_dial", "d_close", "d_wait",
                           "d_teardown", "d_post"} => ~fullyConnected

\* C27: a GetNickStatus call on a session whose registration has started,
\* that is not marked fully connected and whose registration timeout has
\* elapsed, marks it fully connected and returns Confirmed = true.
C27_StatusAppliesTimeout ==
    [][(/\ CallGetNickStatus
        /\ registrationSteps > 0
        /\ ~fullyConnected
        /\ registrationStartTime = "old")
       => fullyConnected' /\ GetNickStatus.Confirmed]_vars

\* C28: Nick(n) on a session that was never connected comes back: it is
\* never left waiting to send on an outbound queue that does not exist.
C28_NickReturnsWithoutConnection ==
    ~(pc["app"] = "n_new" /\ pw = 0)

(***************************************************************************)
(* Callbacks: AddCallback and one call of RunCallbacks.                    *)
(* Strings are sequences of characters; SOH stands for the byte 0x01.      *)
(***************************************************************************)
SOH == "SOH"

SubVersion == <<"V", "E", "R", "S", "I", "O", "N">>
SubTime == <<"T", "I", "M", "E">>
SubPing == <<"P", "I", "N", "G">>
SubUserinfo == <<"U", "S", "E", "R", "I", "N", "F", "O">>
SubClientinfo == <<"C", "L", "I", "E", "N", "T", "I", "N", "F", "O">>
SubAction == <<"A", "C", "T", "I", "O", "N">>
\* a sub-command the switch of RunCallbacks does not know
SubFinger == <<"F", "I", "N", "G", "E", "R">>

SubCommands ==
    {SubVersion, SubTime, SubPing, SubUserinfo, SubClientinfo, SubAction,
     SubFinger}

\* what follows the sub-command in a payload
Tails == UNION {[1..k -> {" ", "x"}] : k \in 0..MaxTail}

Payloads == {k \o t : k \in SubCommands \cup {<<>>}, t \in Tails}

\* trailing arguments: plain, wrapped in markers, with the closing marker
\* missing
Trailings ==
    Payloads \cup {<<SOH>> \o p \o <<SOH>> : p \in Payloads}
             \cup {<<SOH>> \o p : p \in Payloads}

Target == <<"#">>

\* the events dispatched
DispatchEvents ==
    {[code |-> "PRIVMSG", args |-> <<Target, t>>] : t \in Trailings}
    \cup {[code |-> "NOTICE",
            args |-> <<Target, <<SOH>> \o SubVersion \o <<SOH>>>>],
          [code |-> "PRIVMSG", args |-> <<>>]}

\* the event codes handlers are registered for
HandlerCodes == {"PRIVMSG", "CTCP", "CTCP_VERSION", "CTCP_ACTION", "*"}

\* Event.Message(): the last argument, "" if there is none
Message(args) == IF Len(args) = 0 THEN <<>> ELSE args[Len(args)]

\* strings.HasPrefix
HasPrefix(str, prefix) ==
    /\ Len(str) >= Len(prefix)
    /\ SubSeq(str, 1, Len(prefix)) = prefix

\* strings.LastIndex(str, "\x01"), counting from 0; -1 if there is none
LastIndexSOH(str) ==
    LET at == {i \in 1..Len(str) : str[i] = SOH}
    IN IF at = {} THEN -1 ELSE (CHOOSE i \in at : \A j \in at : j <= i) - 1

\* Go's str[from:], from counted from 0
SliceFrom(str, from) == SubSeq(str, from + 1, Len(str))

\* RunCallbacks: the event is a CTCP message
IsCTCP(code, args) ==
    /\ code = "PRIVMSG"
    /\ Len(Message(args)) > 2
    /\ Message(args)[1] = SOH

\* RunCallbacks: msg[1:i], the text between the markers
Unwrapped(msg) == SubSeq(msg, 2, LastIndexSOH(msg))

\* RunCallbacks: the switch on the unwrapped text
CTCPCode(msg) ==
    CASE msg = SubVersion -> "CTCP_VERSION"
      [] msg = SubTime -> "CTCP_TIME"
      [] HasPrefix(msg, SubPing) -> "CTCP_PING"
      [] msg = SubUserinfo -> "CTCP_USERINFO"
      [] msg = SubClientinfo -> "CTCP_CLIENTINFO"
      [] HasPrefix(msg, SubAction) -> "CTCP_ACTION"
      [] OTHER -> "CTCP"

\* the text between the markers kept whole
CTCPTextKept(msg) == msg

\* RunCallbacks: what replaces the last argument
CTCPText(msg) ==
    IF HasPrefix(msg, SubAction)
    THEN IF Len(msg) > 6 THEN SliceFrom(msg, 7) ELSE <<>>
    ELSE msg

\* RunCallbacks: the callbacks map, filled from irc.events[event.Code] and
\* then from irc.events["*"]: an entry of the second replaces an entry of
\* the first that has the same id
CallbacksMap(code) ==
    LET all == {h \in events : h.code = "*"}
        own == {h \in events : h.code = code}
    IN all \cup {h \in own : \A g \in all : g.id # h.id}

\* AddCallback numbering the handlers of each event code on their own
AddCallbackPerCode(eventcode) ==
    /\ rcPc = "idle"
    /\ Cardinality(events) < MaxHandlers
    /\ idCounter < MaxRegistrations
    /\ events' = events \cup
           {[id |-> Cardinality({h \in events : h.code = eventcode}),
             code |-> eventcode, cb |-> "callback"]}
    /\ idCounter' = idCounter + 1
    /\ UNCHANGED <<sessionVars, parseVars, statusVars,
                   callbackTimeout, evIn, evCode,
                   evArgs, rcPc, snap, callbacks, jobs, invoked, ctxDone>>

\* AddCallback(eventcode, callback): the handler gets the next id
AddCallback(eventcode) ==
    /\ rcPc = "idle"
    /\ Cardinality(events) < MaxHandlers
    /\ idCounter < MaxRegistrations
    /\ events' = events \cup
           {[id |-> idCounter, code |-> eventcode, cb |-> "callback"]}
    /\ idCounter' = idCounter + 1
    /\ UNCHANGED <<sessionVars, parseVars, statusVars,
                   callbackTimeout, evIn, evCode,
                   evArgs,
                   rcPc, snap, callbacks, jobs, invoked, ctxDone>>

\* RunCallbacks up to its wait loop: the CTCP rewrite, the copy of the
\* handlers, the context, one goroutine for each entry of the map
RunCallbacks(event) ==
    /\ rcPc = "idle"
    /\ evIn' = event
    /\ IF IsCTCP(event.code, event.args)
          /\ LastIndexSOH(Message(event.args)) <= 0
       THEN \* "Invalid CTCP Message": return with the code rewritten
            /\ evCode' = "CTCP"
            /\ evArgs' = event.args
            /\ rcPc' = "returned"
            /\ UNCHANGED <<snap, callbacks, jobs>>
       ELSE /\ IF IsCTCP(event.code, event.args)
               THEN LET msg == Unwrapped(Message(event.args))
                    IN /\ evCode' = CTCPCode(msg)
                       /\ evArgs' = [event.args EXCEPT ![Len(event.args)] =
                                        CTCPText(msg)]
               ELSE /\ evCode' = event.code
                    /\ evArgs' = event.args
            /\ snap' = CallbacksMap(evCode')
            /\ callbacks' = {h.id : h \in snap'}
            /\ jobs' = [i \in callbacks' |-> "ready"]
            /\ rcPc' = "wait"
    /\ UNCHANGED <<sessionVars, parseVars, statusVars,
                   events, idCounter, callbackTimeout,
                   invoked, ctxDone>>

\* the handler a goroutine runs
HandlerOf(i) == CHOOSE h \in snap : h.id = i

\* a goroutine is scheduled and enters cb(event)
HandlerStarts(i) ==
    /\ i \in DOMAIN jobs
    /\ jobs[i] = "ready"
    /\ jobs' = [jobs EXCEPT ![i] = "running"]
    /\ invoked' = Append(invoked, HandlerOf(i))
    /\ UNCHANGED <<sessionVars, parseVars, statusVars,
                   events, idCounter, callbackTimeout,
                   evIn, evCode, evArgs, rcPc, snap, callbacks, ctxDone>>

\* cb(event) returns; the goroutine reaches its select
HandlerReturns(i) ==
    /\ i \in DOMAIN jobs
    /\ jobs[i] = "running"
    /\ jobs' = [jobs EXCEPT ![i] = "reporting"]
    /\ UNCHANGED <<sessionVars, parseVars, statusVars,
                   events, idCounter, callbackTimeout,
                   evIn, evCode, evArgs, rcPc, snap, callbacks, invoked,
                   ctxDone>>

\* case done <- id, met by RunCallbacks' case jobID := <-done and its
\* delete(callbacks, jobID)
HandlerReports(i) ==
    /\ i \in DOMAIN jobs
    /\ jobs[i] = "reporting"
    /\ rcPc = "wait"
    /\ callbacks # {}
    /\ jobs' = [jobs EXCEPT ![i] = "exited"]
    /\ callbacks' = callbacks \ {i}
    /\ UNCHANGED <<sessionVars, parseVars, statusVars,
                   events, idCounter, callbackTimeout,
                   evIn, evCode, evArgs, rcPc, snap, invoked, ctxDone>>

\* the goroutine's case <-event.Ctx.Done()
HandlerCanceled(i) ==
    /\ i \in DOMAIN jobs
    /\ jobs[i] = "reporting"
    /\ ctxDone
    /\ jobs' = [jobs EXCEPT ![i] = "exited"]
    /\ UNCHANGED <<sessionVars, parseVars, statusVars,
                   events, idCounter, callbackTimeout,
                   evIn, evCode, evArgs, rcPc, snap, callbacks, invoked,
                   ctxDone>>

\* the deadline of context.WithTimeout passes
CtxDeadline ==
    /\ callbackTimeout
    /\ rcPc = "wait"
    /\ ~ctxDone
    /\ ctxDone' = TRUE
    /\ UNCHANGED <<sessionVars, parseVars, statusVars,
                   events, idCounter, callbackTimeout,
                   evIn, evCode, evArgs, rcPc, snap, callbacks, jobs, invoked>>

\* RunCallbacks giving up on a timer of its own, the context left open
RunCallbacksGivesUp ==
    /\ rcPc = "wait"
    /\ callbacks # {}
    /\ callbackTimeout
    /\ rcPc' = "returned"
    /\ UNCHANGED <<sessionVars, parseVars, statusVars,
                   events, idCounter, callbackTimeout,
                   evIn, evCode, evArgs, snap, callbacks, jobs, invoked,
                   ctxDone>>

\* RunCallbacks' case <-event.Ctx.Done(): return
RunCallbacksTimesOut ==
    /\ rcPc = "wait"
    /\ callbacks # {}
    /\ ctxDone
    /\ rcPc' = "returned"
    /\ UNCHANGED <<sessionVars, parseVars, statusVars,
                   events, idCounter, callbackTimeout,
                   evIn, evCode, evArgs, snap, callbacks, jobs, invoked,
                   ctxDone>>

\* RunCallbacks: len(callbacks) = 0, return; the deferred cancel() closes
\* Done() of a context that has a timeout
RunCallbacksReturns ==
    /\ rcPc = "wait"
    /\ callbacks = {}
    /\ rcPc' = "returned"
    /\ ctxDone' = (ctxDone \/ callbackTimeout)
    /\ UNCHANGED <<sessionVars, parseVars, statusVars,
                   events, idCounter, callbackTimeout,
                   evIn, evCode, evArgs, snap, callbacks, jobs, invoked>>

(***************************************************************************)
(* SpecDispatch: handlers are registered, then one event is dispatched.    *)
(***************************************************************************)
InitDispatch ==
    /\ useSASL = FALSE
    /\ InitSession
    /\ InitLine
    /\ InitStatus
    /\ events = {}
    /\ idCounter = 0
    /\ callbackTimeout \in BOOLEAN
    /\ evIn = [code |-> "", args |-> <<>>]
    /\ evCode = ""
    /\ evArgs = <<>>
    /\ rcPc = "idle"
    /\ snap = {}
    /\ callbacks = {}
    /\ jobs = <<>>
    /\ invoked = <<>>
    /\ ctxDone = FALSE

NextDispatch ==
    \/ \E c \in HandlerCodes : AddCallback(c)
    \/ \E e \in DispatchEvents : RunCallbacks(e)
    \/ \E i \in DOMAIN jobs : HandlerStarts(i)
    \/ \E i \in DOMAIN jobs : HandlerReturns(i)
    \/ \E i \in DOMAIN jobs : HandlerReports(i)
    \/ \E i \in DOMAIN jobs : HandlerCanceled(i)
    \/ CtxDeadline
    \/ RunCallbacksTimesOut
    \/ RunCallbacksReturns

SpecDispatch == InitDispatch /\ [][NextDispatch]_vars

\* irc.eventsMutex with the fan-out inside it
eventsMutexHeldByDispatch == rcPc = "wait"

\* irc.eventsMutex: RunCallbacks holds it for its copy of the handlers
\* only and the registry functions for their own body, so that no step
\* ends with it held
eventsMutexHeld == FALSE

\* a handler that RunCallbacks is running calls AddCallback
HandlerAddCallback(i, eventcode) ==
    /\ i \in DOMAIN jobs
    /\ jobs[i] = "running"
    /\ ~eventsMutexHeld
    /\ idCounter < MaxRegistrations
    /\ events' = events \cup
           {[id |-> idCounter, code |-> eventcode, cb |-> "callback"]}
    /\ idCounter' = idCounter + 1
    /\ UNCHANGED <<sessionVars, parseVars, statusVars,
                   callbackTimeout, evIn, evCode, evArgs, rcPc, snap,
                   callbacks, jobs, invoked, ctxDone>>

\* RemoveCallback(eventcode, k), called by a running handler
HandlerRemoveCallback(i, eventcode, k) ==
    /\ i \in DOMAIN jobs
    /\ jobs[i] = "running"
    /\ ~eventsMutexHeld
    /\ events' = {h \in events : ~(h.code = eventcode /\ h.id = k)}
    /\ UNCHANGED <<sessionVars, parseVars, statusVars,
                   callbackTimeout, evIn, evCode, evArgs, rcPc, snap,
                   callbacks, jobs, invoked, ctxDone, idCounter>>

\* ClearCallback(eventcode), called by a running handler
HandlerClearCallback(i, eventcode) ==
    /\ i \in DOMAIN jobs
    /\ jobs[i] = "running"
    /\ ~eventsMutexHeld
    /\ events' = {h \in events : h.code # eventcode}
    /\ UNCHANGED <<sessionVars, parseVars, statusVars,
                   callbackTimeout, evIn, evCode, evArgs, rcPc, snap,
                   callbacks, jobs, invoked, ctxDone, idCounter>>

\* ReplaceCallback(eventcode, k, callback), called by a running handler
HandlerReplaceCallback(i, eventcode, k) ==
    /\ i \in DOMAIN jobs
    /\ jobs[i] = "running"
    /\ ~eventsMutexHeld
    /\ events' = {IF h.code = eventcode /\ h.id = k
                  THEN [h EXCEPT !.cb = "replacement"] ELSE h : h \in events}
    /\ UNCHANGED <<sessionVars, parseVars, statusVars,
                   callbackTimeout, evIn, evCode, evArgs, rcPc, snap,
                   callbacks, jobs, invoked, ctxDone, idCounter>>

\* readLoop: RunCallbacks has returned with every goroutine gone; the next
\* line is read
ReadLoopNextLine ==
    /\ rcPc = "returned"
    /\ \A i \in DOMAIN jobs : jobs[i] = "exited"
    /\ rcPc' = "idle"
    /\ invoked' = <<>>
    /\ parsed' = [status |-> "pending"]
    /\ UNCHANGED <<sessionVars, statusVars, line, errorText, errorType,
                   events, idCounter, callbackTimeout,
                   evIn, evCode, evArgs, snap, callbacks, jobs, ctxDone>>

(***************************************************************************)
(* SpecRegistry: events are dispatched one after the other, without a      *)
(* timeout, to handlers that change the registry while they run.           *)
(***************************************************************************)
RegistryCodes == {"PRIVMSG", "*"}

RegistryIds == 0..(MaxRegistrations - 1)

RegistryEvents == {[code |-> "PRIVMSG", args |-> <<>>]}

InitRegistry ==
    /\ useSASL = FALSE
    /\ InitSession
    /\ InitLine
    /\ InitStatus
    /\ InitEvents

NextRegistry ==
    \/ \E c \in RegistryCodes : AddCallback(c)
    \/ \E e \in RegistryEvents : RunCallbacks(e)
    \/ \E i \in DOMAIN jobs : HandlerStarts(i)
    \/ \E i \in DOMAIN jobs : HandlerReturns(i)
    \/ \E i \in DOMAIN jobs : HandlerReports(i)
    \/ RunCallbacksReturns
    \/ ReadLoopNextLine
    \/ \E i \in DOMAIN jobs, c \in RegistryCodes : HandlerAddCallback(i, c)
    \/ \E i \in DOMAIN jobs, c \in RegistryCodes, k \in RegistryIds :
          HandlerRemoveCallback(i, c, k)
    \/ \E i \in DOMAIN jobs, c \in RegistryCodes : HandlerClearCallback(i, c)
    \/ \E i \in DOMAIN jobs, c \in RegistryCodes, k \in RegistryIds :
          HandlerReplaceCallback(i, c, k)

SpecRegistry == InitRegistry /\ [][NextRegistry]_vars

(***************************************************************************)
(* Claims about RunCallbacks (checked under SpecDispatch).                 *)
(***************************************************************************)

\* the handlers registered for the event's code and the wildcard handlers
Matching == {h \in events : h.code \in {evCode, "*"}}

\* how often a handler was entered
InvokedTimes(h) == Cardinality({k \in 1..Len(invoked) : invoked[k] = h})

\* RunCallbacks returned at "Invalid CTCP Message"
Rejected ==
    /\ IsCTCP(evIn.code, evIn.args)
    /\ LastIndexSOH(Message(evIn.args)) <= 0

\* every matching handler was entered once and has returned, no other
\* handler was entered
EachMatchingOnce ==
    /\ \A h \in events : InvokedTimes(h) = (IF h \in Matching THEN 1 ELSE 0)
    /\ \A i \in DOMAIN jobs : jobs[i] = "exited"

\* C16, as stated: with no callback timeout, when RunCallbacks has returned
\* every handler registered for the event's code and every wildcard handler
\* was invoked exactly once and has returned.
C16_EveryHandlerOnce ==
    (~callbackTimeout /\ rcPc = "returned") => EachMatchingOnce

\* C16, amended: the same, unless the event is a PRIVMSG whose last argument
\* is longer than two characters, begins with the marker and has no second
\* marker: RunCallbacks then returns without invoking any handler.
C16_EveryHandlerOnceUnlessRejected ==
    (~callbackTimeout /\ rcPc = "returned") =>
        IF Rejected THEN invoked = <<>> ELSE EachMatchingOnce

\* a handler of the event's code and a wildcard handler both ran
C16_Witness ==
    /\ ~callbackTimeout
    /\ rcPc = "returned"
    /\ ~Rejected
    /\ \E h, g \in events :
          /\ h.code = "*" /\ g.code = evCode
          /\ InvokedTimes(h) = 1 /\ InvokedTimes(g) = 1

\* C17: with a callback timeout, RunCallbacks can return as soon as the
\* timeout has elapsed, whatever the handlers are doing, and a handler that
\* has returned never waits in vain to report: RunCallbacks is still
\* receiving, or the context is done.
C17_TimeoutAbandonsHandlers ==
    callbackTimeout =>
        /\ (rcPc = "wait" /\ callbacks # {} /\ ctxDone)
               => ENABLED RunCallbacksTimesOut
        /\ \A i \in DOMAIN jobs :
               jobs[i] = "reporting" =>
                   \/ rcPc = "wait" /\ callbacks # {}
                   \/ ctxDone

\* RunCallbacks returned on the timeout, one handler returned afterwards and
\* another is still running
C17_Witness ==
    /\ callbackTimeout
    /\ rcPc = "returned"
    /\ \E i, j \in DOMAIN jobs : jobs[i] = "reporting" /\ jobs[j] = "running"

\* C18: the handlers of an event run one at a time, in the order in which
\* they were registered.
C18_OneAtATimeInOrder ==
    /\ Cardinality({i \in DOMAIN jobs : jobs[i] = "running"}) <= 1
    /\ \A k, l \in 1..Len(invoked) : k < l => invoked[k].id < invoked[l].id

\* the event passed is a PRIVMSG whose last argument is p between markers
WrappedIn(p) ==
    /\ evIn.code = "PRIVMSG"
    /\ Len(evIn.args) > 0
    /\ Message(evIn.args) = <<SOH>> \o p \o <<SOH>>

\* only handlers of the event's code and wildcard handlers are started
OnlyMatchingRun ==
    /\ snap = Matching
    /\ \A k \in 1..Len(invoked) : invoked[k] \in snap

C35_RegistryChangeWhileDispatching ==
    /\ [](\A i \in DOMAIN jobs :
            jobs[i] = "running"
              => \A c \in RegistryCodes : ENABLED HandlerClearCallback(i, c))
    /\ [](rcPc = "returned"
            => {invoked[k] : k \in 1..Len(invoked)} = snap)
    /\ [][\A e \in RegistryEvents :
            RunCallbacks(e)
              => snap' = {h \in events : h.code \in {evCode', "*"}}]_vars

\* both handlers of a dispatch ran although they emptied the registry
C35_Witness ==
    /\ rcPc = "returned"
    /\ Cardinality(snap) = 2 /\ Len(invoked) = 2
    /\ events = {}

\* C39: AddCallback hands out a fresh identifier on every call: one not
\* below the counter, which only grows, so that no identifier is given
\* twice, whatever the event codes and whatever was removed meanwhile.
C39_FreshIdentifiers ==
    /\ [][/\ idCounter' >= idCounter
          /\ \A h \in events' :
                h.id \notin {g.id : g \in events}
                  => h.id >= idCounter /\ h.id < idCounter']_vars
    /\ [](\A g, h \in events : g.id = h.id => g = h)

\* the second registration, under another code, after the first was removed
C39_Witness ==
    /\ idCounter = 2
    /\ events = {[id |-> 1, code |-> "*", cb |-> "callback"]}
    /\ \E h \in snap : h.id = 0 /\ h.code = "PRIVMSG"

(***************************************************************************)
(* The parser of received lines.  CR, LF and BS stand for the carriage     *)
(* return, the line feed and the backslash.                                *)
(***************************************************************************)

CR == "CR"

LF == "LF"

BS == "BS"

\* the characters the lines are made of
LineChars == {"@", ":", " ", "a", "!", "=", ";", CR, LF}

\* the lines given to parseToEvent
Lines == UNION {[1..n -> LineChars] : n \in 0..MaxLineLen}

\* strings.TrimSuffix(str, suffix), the suffix one character
TrimSuffix(str, suffix) ==
    IF Len(str) > 0 /\ str[Len(str)] = suffix
    THEN SubSeq(str, 1, Len(str) - 1)
    ELSE str

\* parseToEvent: msg without its line terminator
Trimmed(msg) == TrimSuffix(TrimSuffix(msg, LF), CR)

\* strings.Index(str, substr): the first index, counted from 0, or -1
Index(str, substr) ==
    LET at == {i \in 0..(Len(str) - Len(substr)) :
                  SubSeq(str, i + 1, i + Len(substr)) = substr}
    IN IF at = {} THEN -1 ELSE CHOOSE i \in at : \A j \in at : i <= j

\* str[from:to]
Slice(str, from, to) == SubSeq(str, from + 1, to)

\* strings.Split(str, sep)
RECURSIVE Split(_, _)
Split(str, sep) ==
    LET i == Index(str, sep)
    IN IF i = -1 THEN <<str>>
       ELSE <<Slice(str, 0, i)>> \o Split(SliceFrom(str, i + Len(sep)), sep)

\* strings.SplitN(str, sep, 2)
SplitN2(str, sep) ==
    LET i == Index(str, sep)
    IN IF i = -1 THEN <<str>>
       ELSE <<Slice(str, 0, i), SliceFrom(str, i + Len(sep))>>

\* strings.ToUpper
ToUpper(str) == [i \in 1..Len(str) |-> IF str[i] = "a" THEN "A" ELSE str[i]]

\* strings.Replace(value, "\\" + c, r, -1)
RECURSIVE ReplaceEscape(_, _, _)
ReplaceEscape(value, c, r) ==
    IF Len(value) < 2 THEN value
    ELSE IF value[1] = BS /\ value[2] = c
         THEN <<r>> \o ReplaceEscape(SliceFrom(value, 2), c, r)
         ELSE <<value[1]>> \o ReplaceEscape(Tail(value), c, r)

\* unescapeTagValue: five replacements, one after the other
unescapeTagValue(value) ==
    ReplaceEscape(
      ReplaceEscape(
        ReplaceEscape(
          ReplaceEscape(
            ReplaceEscape(value, ":", ";"),
            "s", " "),
          BS, BS),
        "r", CR),
      "n", LF)

\* parseToEvent: event.Tags from the tags between "@" and the first space
TagsOf(tags) ==
    LET key(data) ==
            IF Index(data, <<"=">>) = -1 THEN data
            ELSE Slice(data, 0, Index(data, <<"=">>))
        val(data) ==
            IF Index(data, <<"=">>) = -1 THEN <<>>
            ELSE unescapeTagValue(SliceFrom(data, Index(data, <<"=">>) + 1))
        last(k) == CHOOSE n \in DOMAIN tags :
                      /\ key(tags[n]) = k
                      /\ \A m \in DOMAIN tags : key(tags[m]) = k => m <= n
    IN [k \in {key(tags[n]) : n \in DOMAIN tags} |-> val(tags[last(k)])]

\* parseToEvent(msg): an event, the error "malformed msg from server", or
\* the panic of msg[0] on an empty msg
parseToEvent(input) ==
    LET msg0 == Trimmed(input)
        tagged == msg0[1] = "@"
        ti == Index(msg0, <<" ">>)
        msg1 == IF tagged THEN SliceFrom(msg0, ti + 1) ELSE msg0
        sourced == msg1[1] = ":"
        si == Index(msg1, <<" ">>)
        Source == IF sourced THEN Slice(msg1, 1, si) ELSE <<>>
        msg2 == IF sourced THEN SliceFrom(msg1, si + 1) ELSE msg1
        i == Index(Source, <<"!">>)
        j == Index(Source, <<"@">>)
        named == i > -1 /\ j > -1 /\ i < j
        split == SplitN2(msg2, <<" ", ":">>)
        args == Split(split[1], <<" ">>)
    IN IF Len(msg0) < 1 THEN [status |-> "error"]
       ELSE IF tagged /\ ti = -1 THEN [status |-> "error"]
       ELSE IF Len(msg1) = 0 THEN [status |-> "panic"]
       ELSE IF sourced /\ si = -1 THEN [status |-> "error"]
       ELSE [status |-> "event",
             Raw |-> msg0,
             Tags |-> IF tagged
                      THEN TagsOf(Split(Slice(msg0, 1, ti), <<";">>))
                      ELSE <<>>,
             Source |-> Source,
             Nick |-> IF named THEN Slice(Source, 0, i) ELSE <<>>,
             User |-> IF named THEN Slice(Source, i + 1, j) ELSE <<>>,
             Host |-> IF named THEN SliceFrom(Source, j + 1) ELSE <<>>,
             Code |-> ToUpper(args[1]),
             Arguments |-> IF Len(split) > 1
                           THEN Append(Tail(args), split[2])
                           ELSE Tail(args)]

\* one call of parseToEvent
ParseLine ==
    /\ parsed.status = "pending"
    /\ parsed' = parseToEvent(line)
    /\ UNCHANGED <<sessionVars, dispatchVars, statusVars, line, errorText,
                   errorType>>

\* a fresh session and a line to parse
InitParse ==
    /\ useSASL = FALSE
    /\ InitSession
    /\ InitEvents
    /\ InitStatus
    /\ line \in Lines
    /\ parsed = [status |-> "pending"]
    /\ errorText = <<>>
    /\ errorType = "pending"

NextParse ==
    \/ ParseLine

SpecParse == InitParse /\ [][NextParse]_vars

(***************************************************************************)
(* SpecTags: one tag value is encoded and then decoded.                    *)
(***************************************************************************)
\* the characters of tag values: those the escapes stand for, the letters
\* the escapes are written with, and one other
TagChars == {";", " ", BS, CR, LF, ":", "s", "r", "n", "a"}

TagValues == UNION {[1..n -> TagChars] : n \in 0..MaxTagLen}

\* the escape of one character (the table of the wire format, read from
\* right to left)
EscapeOf(c) ==
    CASE c = ";" -> <<BS, ":">>
      [] c = " " -> <<BS, "s">>
      [] c = BS -> <<BS, BS>>
      [] c = CR -> <<BS, "r">>
      [] c = LF -> <<BS, "n">>
      [] OTHER -> <<c>>

\* a tag value as the sender writes it
RECURSIVE escapeTagValue(_)
escapeTagValue(value) ==
    IF value = <<>> THEN <<>>
    ELSE EscapeOf(Head(value)) \o escapeTagValue(Tail(value))

\* the value in line is encoded, and parseToEvent's unescapeTagValue is
\* applied to the result
UnescapeTag ==
    /\ parsed.status = "pending"
    /\ parsed' = [status |-> "decoded",
                  value |-> unescapeTagValue(escapeTagValue(line))]
    /\ UNCHANGED <<sessionVars, dispatchVars, statusVars, line, errorText,
                   errorType>>

InitTags ==
    /\ useSASL = FALSE
    /\ InitSession
    /\ InitEvents
    /\ InitStatus
    /\ line \in TagValues
    /\ parsed = [status |-> "pending"]
    /\ errorText = <<>>
    /\ errorType = "pending"

NextTags ==
    \/ UnescapeTag

SpecTags == InitTags /\ [][NextTags]_vars

\* C40: a tag value encoded with the five escapes and decoded by
\* unescapeTagValue is the value again.
C40_TagRoundTrip ==
    parsed.status = "decoded" => parsed.value = line

(***************************************************************************)
(* SpecReader: readLoop takes one line after the other, parses it and      *)
(* hands the event to RunCallbacks; a handler for every event is           *)
(* registered.                                                             *)
(***************************************************************************)
\* readLoop: a line is read and parseToEvent(msg) is called; msg[0] on an
\* empty msg panics and nothing recovers
ReadLoopParse(l) ==
    /\ ~panicked
    /\ rcPc = "idle"
    /\ parsed.status \in {"pending", "error"}
    /\ line' = l
    /\ parsed' = parseToEvent(l)
    /\ panicked' = (parsed'.status = "panic")
    /\ UNCHANGED <<nickVars, viewVars, useSASL, mu, quit, sentRegistration,
                   chanVars, pwq, errq, workers, timers, capHandler, capChan,
                   pc, loopVars, histVars, dispatchVars, statusVars,
                   errorText, errorType>>

\* event.Code as the registry's key; the lines carry no command that a
\* handler is registered for by name
CodeName(code) == IF code = <<"A">> THEN "A" ELSE "OTHER"

\* readLoop: err == nil, irc.RunCallbacks(event)
ReadLoopRunCallbacks ==
    /\ ~panicked
    /\ parsed.status = "event"
    /\ RunCallbacks([code |-> CodeName(parsed.Code),
                     args |-> parsed.Arguments])

\* the lines the server sends
ReadLines == UNION {[1..n -> LineChars] : n \in 0..MaxReadLen}

InitReader ==
    /\ useSASL = FALSE
    /\ InitSession
    /\ InitEvents
    /\ InitLine
    /\ InitStatus

NextReader ==
    \/ AddCallback("*")
    \/ \E l \in ReadLines : ReadLoopParse(l)
    \/ ReadLoopRunCallbacks
    \/ \E i \in DOMAIN jobs : HandlerStarts(i)
    \/ \E i \in DOMAIN jobs : HandlerReturns(i)
    \/ \E i \in DOMAIN jobs : HandlerReports(i)
    \/ RunCallbacksReturns
    \/ ReadLoopNextLine

SpecReader == InitReader /\ [][NextReader]_vars

(***************************************************************************)
(* Claims about parseToEvent (checked under SpecParse) and about readLoop  *)
(* (checked under SpecReader).                                             *)
(***************************************************************************)

\* C38: a line that fails to parse is dropped: nothing is posted on the
\* Error channel, no handler runs, the reader goes on and reads the next
\* line.
C38_UnparsableLineDropped ==
    [][(ReadLoopParse(line') /\ parsed'.status # "event")
          => /\ UNCHANGED <<errq, workers, dispatchVars, panicked>>
             /\ parsed'.status = "error"]_vars

\* C19: parseToEvent returns an event for every line that has a character
\* left once its terminator is stripped, and an error for the empty line
\* only.
C19_ErrorOnlyForEmptyLine ==
    parsed.status # "pending" =>
        /\ Len(Trimmed(line)) >= 1 => parsed.status = "event"
        /\ Len(Trimmed(line)) = 0 => parsed.status = "error"

(***************************************************************************)
(* AnalyzeErrorMessage applied to the text of one ERROR line.              *)
(***************************************************************************)
\* AnalyzeErrorMessage: the four pattern lists
permanentPatterns ==
    {<<"k", "-", "l", "i", "n", "e", "d">>,
     <<"k", "-", "l", "i", "n", "e">>,
     <<"k", "l", "i", "n", "e", "d">>,
     <<"g", "-", "l", "i", "n", "e", "d">>,
     <<"g", "-", "l", "i", "n", "e">>,
     <<"g", "l", "i", "n", "e", "d">>,
     <<"b", "a", "n", "n", "e", "d">>,
     <<"y", "o", "u", " ", "a", "r", "e", " ", "b", "a", "n", "n", "e", "d">>,
     <<"u", "s", "e", "r", " ", "i", "s", " ", "b", "a", "n", "n", "e", "d">>,
     <<"u", "n", "a", "u", "t", "h", "o", "r", "i", "z", "e", "d", " ", "c",
       "o", "n", "n", "e", "c", "t", "i", "o", "n">>,
     <<"c", "o", "n", "n", "e", "c", "t", "i", "o", "n", " ", "r", "e", "f",
       "u", "s", "e", "d">>,
     <<"a", "c", "c", "e", "s", "s", " ", "d", "e", "n", "i", "e", "d">>,
     <<"y", "o", "u", " ", "a", "r", "e", " ", "n", "o", "t", " ", "a", "u",
       "t", "h", "o", "r", "i", "z", "e", "d">>,
     <<"b", "l", "a", "c", "k", "l", "i", "s", "t", "e", "d">>,
     <<"t", "h", "r", "o", "t", "t", "l", "e", "d">>,
     <<"t", "h", "r", "o", "t", "t", "l", "i", "n", "g">>,
     <<"f", "l", "o", "o", "d">>,
     <<"f", "l", "o", "o", "d", "i", "n", "g">>,
     <<"s", "p", "a", "m">>,
     <<"s", "p", "a", "m", "m", "i", "n", "g">>}

\* server-side limits
serverPatterns ==
    {<<"t", "o", "o", " ", "m", "a", "n", "y", " ", "c", "o", "n", "n", "e",
       "c", "t", "i", "o", "n", "s">>,
     <<"t", "o", "o", " ", "m", "a", "n", "y", " ", "h", "o", "s", "t", " ",
       "c", "o", "n", "n", "e", "c", "t", "i", "o", "n", "s">>,
     <<"t", "o", "o", " ", "m", "a", "n", "y", " ", "h", "o", "s", "t", " ",
       "c", "o", "n", "n", "e", "c", "t", "i", "o", "n", "s", " ", "(", "l",
       "o", "c", "a", "l", ")">>,
     <<"t", "o", "o", " ", "m", "a", "n", "y", " ", "h", "o", "s", "t", " ",
       "c", "o", "n", "n", "e", "c", "t", "i", "o", "n", "s", " ", "(", "g",
       "l", "o", "b", "a", "l", ")">>,
     <<"t", "o", "o", " ", "m", "a", "n", "y", " ", "g", "l", "o", "b", "a",
       "l", " ", "c", "o", "n", "n", "e", "c", "t", "i", "o", "n", "s">>,
     <<"c", "o", "n", "n", "e", "c", "t", "i", "o", "n", " ", "l", "i", "m",
       "i", "t", " ", "e", "x", "c", "e", "e", "d", "e", "d">>,
     <<"s", "e", "r", "v", "e", "r", " ", "f", "u", "l", "l">>,
     <<"m", "a", "x", " ", "c", "o", "n", "n", "e", "c", "t", "i", "o", "n",
       "s", " ", "r", "e", "a", "c", "h", "e", "d">>,
     <<"t", "o", "o", " ", "m", "a", "n", "y", " ", "c", "o", "n", "n", "e",
       "c", "t", "i", "o", "n", "s", " ", "f", "r", "o", "m", " ", "t", "h",
       "i", "s", " ", "i", "p">>,
     <<"t", "o", "o", " ", "m", "a", "n", "y", " ", "c", "o", "n", "n", "e",
       "c", "t", "i", "o", "n", "s", " ", "f", "r", "o", "m", " ", "y", "o",
       "u", "r", " ", "h", "o", "s", "t">>,
     <<"c", "o", "n", "n", "e", "c", "t", "i", "o", "n", " ", "l", "i", "m",
       "i", "t">>,
     <<"h", "o", "s", "t", " ", "l", "i", "m", "i", "t">>,
     <<"i", "p", " ", "l", "i", "m", "i", "t">>,
     <<"c", "l", "o", "n", "e", " ", "l", "i", "m", "i", "t">>,
     <<"t", "o", "o", " ", "m", "a", "n", "y", " ", "c", "l", "o", "n", "e",
       "s">>}

\* connectivity
networkPatterns ==
    {<<"c", "o", "n", "n", "e", "c", "t", "i", "o", "n", " ", "r", "e", "s",
       "e", "t">>,
     <<"c", "o", "n", "n", "e", "c", "t", "i", "o", "n", " ", "t", "i", "m",
       "e", "d", " ", "o", "u", "t">>,
     <<"n", "e", "t", "w", "o", "r", "k", " ", "u", "n", "r", "e", "a", "c",
       "h", "a", "b", "l", "e">>,
     <<"n", "o", " ", "r", "o", "u", "t", "e", " ", "t", "o", " ", "h", "o",
       "s", "t">>,
     <<"c", "o", "n", "n", "e", "c", "t", "i", "o", "n", " ", "l", "o", "s",
       "t">>,
     <<"b", "r", "o", "k", "e", "n", " ", "p", "i", "p", "e">>}

\* temporary issues
recoverablePatterns ==
    {<<"r", "e", "g", "i", "s", "t", "r", "a", "t", "i", "o", "n", " ", "t",
       "i", "m", "e", "o", "u", "t">>,
     <<"p", "i", "n", "g", " ", "t", "i", "m", "e", "o", "u", "t">>,
     <<"s", "e", "r", "v", "e", "r", " ", "s", "h", "u", "t", "t", "i", "n",
       "g", " ", "d", "o", "w", "n">>,
     <<"s", "e", "r", "v", "e", "r", " ", "r", "e", "s", "t", "a", "r", "t">>}

\* texts of ERROR lines that name none of the patterns
UnknownTexts ==
    {<<>>,
     <<"c", "l", "o", "s", "i", "n", "g", " ", "l", "i", "n", "k">>,
     <<"k", " ", "l", "i", "n", "e">>,
     <<"b", "a", "n">>,
     <<"t", "i", "m", "e", "o", "u", "t">>,
     <<"q", "u", "i", "t">>,
     <<"l", "i", "m", "i", "t">>,
     <<"t", "o", "o", " ", "m", "a", "n", "y">>,
     <<"b", "y", "e">>,
     <<"K", "i", "l", "l", "e", "d">>}

\* the letters strings.ToLower changes
UpperLetters == <<"A", "B", "C", "D", "E", "F", "G", "H", "I", "J", "K", "L",
                  "M", "N", "O", "P", "Q", "R", "S", "T", "U", "V", "W", "X",
                  "Y", "Z">>
LowerLetters == <<"a", "b", "c", "d", "e", "f", "g", "h", "i", "j", "k", "l",
                  "m", "n", "o", "p", "q", "r", "s", "t", "u", "v", "w", "x",
                  "y", "z">>

\* strings.ToLower
ToLower(str) ==
    [i \in 1..Len(str) |->
        IF \E k \in 1..Len(UpperLetters) : UpperLetters[k] = str[i]
        THEN LowerLetters[CHOOSE k \in 1..Len(UpperLetters) :
                              UpperLetters[k] = str[i]]
        ELSE str[i]]

\* strings.Contains
Contains(str, substr) == Index(str, substr) >= 0

\* the loops over a pattern list: some pattern of the list is in the text
MatchesAny(errorLower, patterns) ==
    \E pattern \in patterns : Contains(errorLower, pattern)

\* AnalyzeErrorMessage with the default it had before RecoverableError
\* became the default
AnalyzeErrorMessageDefaultPermanent(errorMsg) ==
    LET errorLower == ToLower(errorMsg)
    IN IF MatchesAny(errorLower, permanentPatterns) THEN "PermanentError"
       ELSE IF MatchesAny(errorLower, serverPatterns) THEN "ServerError"
       ELSE IF MatchesAny(errorLower, networkPatterns) THEN "NetworkError"
       ELSE IF MatchesAny(errorLower, recoverablePatterns)
       THEN "RecoverableError"
       ELSE "PermanentError"

\* AnalyzeErrorMessage(errorMsg)
AnalyzeErrorMessage(errorMsg) ==
    LET errorLower == ToLower(errorMsg)
    IN IF MatchesAny(errorLower, permanentPatterns) THEN "PermanentError"
       ELSE IF MatchesAny(errorLower, serverPatterns) THEN "ServerError"
       ELSE IF MatchesAny(errorLower, networkPatterns) THEN "NetworkError"
       ELSE IF MatchesAny(errorLower, recoverablePatterns)
       THEN "RecoverableError"
       ELSE "RecoverableError"

\* the texts given to AnalyzeErrorMessage: a pattern or an unknown text, as
\* it is or in capitals, with up to MaxAround characters on either side
Around == UNION {[1..n -> {"x", " "}] : n \in 0..MaxAround}
Capitals(str) ==
    [i \in 1..Len(str) |->
        IF \E k \in 1..Len(LowerLetters) : LowerLetters[k] = str[i]
        THEN UpperLetters[CHOOSE k \in 1..Len(LowerLetters) :
                              LowerLetters[k] = str[i]]
        ELSE str[i]]
ErrorMessages ==
    LET cores == permanentPatterns \cup serverPatterns \cup networkPatterns
                   \cup recoverablePatterns \cup UnknownTexts
    IN {before \o core \o after :
           before \in Around, after \in Around,
           core \in cores \cup {Capitals(c) : c \in cores}}

\* one call of AnalyzeErrorMessage
AnalyzeError ==
    /\ errorType = "pending"
    /\ errorType' = AnalyzeErrorMessage(errorText)
    /\ UNCHANGED <<sessionVars, dispatchVars, statusVars, line, parsed,
                   errorText>>

\* a fresh session and the text of an ERROR line
InitAnalyze ==
    /\ useSASL = FALSE
    /\ InitSession
    /\ InitEvents
    /\ InitStatus
    /\ line = <<>>
    /\ parsed = [status |-> "pending"]
    /\ errorText \in ErrorMessages
    /\ errorType = "pending"

NextAnalyze ==
    \/ AnalyzeError

SpecAnalyze == InitAnalyze /\ [][NextAnalyze]_vars

(***************************************************************************)
(* Claims about AnalyzeErrorMessage (checked under SpecAnalyze).           *)
(***************************************************************************)
\* C26: a text that contains none of the Permanent, Server, Network and
\* Recoverable patterns is classified RecoverableError, never
\* PermanentError.
C26_UnknownIsRecoverable ==
    LET errorLower == ToLower(errorText)
        known == permanentPatterns \cup serverPatterns \cup networkPatterns
                   \cup recoverablePatterns
    IN (errorType # "pending" /\ ~MatchesAny(errorLower, known))
       => errorType = "RecoverableError" /\ errorType # "PermanentError"

\* an unknown text in capitals was classified
C26_Witness ==
    /\ errorType = "RecoverableError"
    /\ errorText = <<"x", "C", "L", "O", "S", "I", "N", "G", " ", "L", "I", "N",
                     "K">>

====
